---- MODULE Spec2Model ----
(***************************************************************************)
(* K-DATAELECT: the import / normalise / aggregate pipeline of             *)
(* src/services/geminiService.ts (parseValue, parseDateTime,               *)
(* parseExcelFiles, aggregateToHourly).                                    *)
(*                                                                         *)
(* Representation of the JavaScript values the code works on:              *)
(*   - a string is a sequence of one-character strings;                    *)
(*   - a number read from a cell or produced by parseFloat is an integer   *)
(*     count of 1/Scale units (an exact decimal: for the short texts of    *)
(*     the model parseFloat is injective, so equal numbers are equal       *)
(*     counts);                                                            *)
(*   - a cell is a record [t, n, s, u]: t is the JavaScript type of the    *)
(*     cell ("num", "str", "bool", "blank" for undefined/null), n the      *)
(*     number, s the text; u is what the number has below 1/Scale, in      *)
(*     1/SubUnits of 1/Scale (0 but in the time cells next to midnight);   *)
(*   - an instant (Date) is an integer count of minutes since the Unix     *)
(*     epoch, UTC; the runtime's local zone is the state variable tz       *)
(*     (minutes east of UTC, no daylight saving).                          *)
(***************************************************************************)
EXTENDS Integers, Sequences, FiniteSets, TLC

\* ------------------------------------------------------------------ bounds

\* Longest text cell given to parseValue.
MaxLen == 3

\* Units per 1 of a number: every text of at most MaxLen characters has at
\* most MaxLen fractional digits.
Scale == 10 ^ MaxLen

\* Significant bits of a number: the miniature of binary64's 53.  A sum or a
\* quotient is rounded to the nearest number of that many bits, ties to
\* even, as IEEE 754 arithmetic does.
Prec == 4

\* Longest list of readings given to aggregateToHourly.
MaxReadings == 3

\* Most files of one import, and most rows of one sheet.
MaxFiles == 2

MaxRowsPerFile == 2

\* Fractional bits of a minute an instant keeps: the miniature of the 12
\* fractional bits of a millisecond binary64 keeps at the magnitude of
\* today's instants.  The product (serial - 25569) * 86400 * 1000 is rounded
\* to the nearest such number, ties to even.
DateBits == 2

\* Most calls of parseDateTime on one pair of cells.
MaxCalls == 2

\* Longest list of hourly records given to generateCSV.
MaxRecords == 3

\* Most calls of handleProcessFiles that await parseExcelFiles at a time.
MaxPending == 1

\* Most files loadProject reads in one behaviour.
MaxLoads == 2

\* Parts of 1/Scale the number of a time cell is known to: with them a time
\* of day is known to less than a tenth of a second.
SubUnits == 1000

VARIABLES
    tz,         \* the runtime's local zone: minutes east of UTC
    cell,       \* parseValue: the argument val
    numOut,     \* parseValue: the returned number
    valPc,      \* parseValue: "call" before the call, "ret" after it
    rawData,    \* aggregateToHourly: the argument rows (a list of TelemetryRow)
    hourlyData, \* aggregateToHourly: the returned list of HourlyData
    aggPc,      \* aggregateToHourly: "call" before the call, "ret" after it
    now,        \* the wall clock: the instant new Date() gives
    files,      \* parseExcelFiles: the argument files, each as XLSX reads it
    mapping,    \* parseExcelFiles: the argument mapping (a ColumnMapping)
    fIndex,     \* parseExcelFiles: the loop index over files
    allRows,    \* parseExcelFiles: the readings pushed so far
    detectedCpe,\* parseExcelFiles: the installation identifier, or null
    parsePc,    \* parseExcelFiles: "loop", "done" (resolved), "error" (rejected)
    data,       \* parseExcelFiles: the returned series
    dateIn,     \* parseDateTime: the argument dateVal (a cell)
    timeIn,     \* parseDateTime: the argument timeVal (a cell)
    dateOut,    \* parseDateTime: what the calls made so far returned
    csvData,    \* generateCSV: the argument data (a list of HourlyData)
    csvConfig,  \* generateCSV: the argument config (an ExportConfig)
    csvOut,     \* generateCSV: the headers and the rows of csvContent
    csvPc,      \* generateCSV: "call" before the call, "ret" after it
    exportSel,  \* Dashboard: exportRange and period of the export modal
    project,    \* App: the ProjectState
    viewMode,   \* App: the ViewMode
    loading,    \* App: the loading flag
    selectedFiles, \* App: the files chosen for the import
    alertMsg,   \* App: the alert or confirm of the last handler, "none" if none
    pending,    \* App: the calls of handleProcessFiles awaiting parseExcelFiles
    savedFile,  \* saveProject: the project file of the last download
    loadLog,    \* loadProject: the project files read so far, in order
    isGenerating, \* ReportView: the isGenerating flag
    aiCalls,    \* ReportView: the calls of generateReportAnalysis not ended
    apiKey      \* process.env.API_KEY is set

valueVars == <<cell, numOut, valPc>>
aggVars == <<rawData, hourlyData, aggPc>>
parseVars == <<files, mapping, fIndex, allRows, detectedCpe, parsePc, data>>
dateVars == <<dateIn, timeIn, dateOut>>
csvVars == <<csvData, csvConfig, csvOut, csvPc, exportSel>>
appVars == <<project, viewMode, loading, selectedFiles, alertMsg, pending>>
fileVars == <<savedFile, loadLog>>
reportVars == <<isGenerating, aiCalls, apiKey>>
vars == <<tz, now, cell, numOut, valPc, rawData, hourlyData, aggPc,
          files, mapping, fIndex, allRows, detectedCpe, parsePc, data,
          dateIn, timeIn, dateOut, csvData, csvConfig, csvOut, csvPc, exportSel,
          project, viewMode, loading, selectedFiles, alertMsg, pending,
          savedFile, loadLog, isGenerating, aiCalls, apiKey>>

\* Local zones of the runtime: New York (winter), UTC, India.
TZOffsets == {-300, 0, 330}

\* ------------------------------------------------------------------- cells

Num(n) == [t |-> "num", n |-> n, s |-> <<>>, u |-> 0]
Str(s) == [t |-> "str", n |-> 0, s |-> s, u |-> 0]
Blank == [t |-> "blank", n |-> 0, s |-> <<>>, u |-> 0]
Bool == [t |-> "bool", n |-> 0, s |-> <<>>, u |-> 0]

\* The number n / Scale + u / (Scale * SubUnits), 0 <= u < SubUnits.
NumFine(n, u) == [t |-> "num", n |-> n, s |-> <<>>, u |-> u]

Digits == <<"0", "1", "2", "3", "4", "5", "6", "7", "8", "9">>

IsDigit(c) == \E i \in 1..10 : Digits[i] = c

DigitVal(c) == (CHOOSE i \in 1..10 : Digits[i] = c) - 1

\* White space as String.prototype.trim sees it (the model's texts hold the
\* space only).
IsSpace(c) == c = " "

RECURSIVE TrimLeft(_)
TrimLeft(s) ==
    IF s # <<>> /\ IsSpace(Head(s)) THEN TrimLeft(Tail(s)) ELSE s

RECURSIVE TrimRight(_)
TrimRight(s) ==
    IF s # <<>> /\ IsSpace(s[Len(s)])
    THEN TrimRight(SubSeq(s, 1, Len(s) - 1))
    ELSE s

\* String.prototype.trim
Trim(s) == TrimRight(TrimLeft(s))

\* String.prototype.replace(from, to) with a string pattern: the FIRST
\* occurrence only.
RECURSIVE ReplaceFirst(_, _, _)
ReplaceFirst(s, from, to) ==
    IF s = <<>> THEN <<>>
    ELSE IF Head(s) = from THEN <<to>> \o Tail(s)
    ELSE <<Head(s)>> \o ReplaceFirst(Tail(s), from, to)

\* The character class [0-9.-]
IsNumberChar(c) == IsDigit(c) \/ c = "." \/ c = "-"

\* replace(/[^0-9.-]/g, '')
StripNonNumber(s) == SelectSeq(s, IsNumberChar)

\* Length of the longest run of digits at the start of s.
RECURSIVE DigitRun(_)
DigitRun(s) ==
    IF s # <<>> /\ IsDigit(Head(s)) THEN 1 + DigitRun(Tail(s)) ELSE 0

\* Value of a digit string as an integer.
RECURSIVE DigitsValue(_)
DigitsValue(s) ==
    IF s = <<>> THEN 0
    ELSE 10 * DigitsValue(SubSeq(s, 1, Len(s) - 1)) + DigitVal(s[Len(s)])

\* Value of a digit string read as the fraction 0.s, in 1/Scale units
\* (digits past the Scale's precision are dropped).
RECURSIVE FractionValue(_, _)
FractionValue(s, unit) ==
    IF s = <<>> \/ unit = 0 THEN 0
    ELSE DigitVal(Head(s)) * unit + FractionValue(Tail(s), unit \div 10)

\* parseFloat on a text of digits, dots and minus signs: the longest prefix
\* that is a decimal literal ([-] digits [. digits] or [-] . digits), NaN
\* when there is none.  The result is [nan, v].
ParseFloat(s) ==
    LET neg == s # <<>> /\ Head(s) = "-"
        body == IF neg THEN Tail(s) ELSE s
        ni == DigitRun(body)
        rest == SubSeq(body, ni + 1, Len(body))
        dot == rest # <<>> /\ Head(rest) = "."
        nf == IF dot THEN DigitRun(Tail(rest)) ELSE 0
        mag == DigitsValue(SubSeq(body, 1, ni)) * Scale
               + (IF dot THEN FractionValue(SubSeq(rest, 2, nf + 1), Scale \div 10)
                  ELSE 0)
    IN  IF ni = 0 /\ nf = 0
        THEN [nan |-> TRUE, v |-> 0]
        ELSE [nan |-> FALSE, v |-> IF neg THEN -mag ELSE mag]

\* Every occurrence of from replaced by to (String.prototype.replaceAll).
ReplaceAll(s, from, to) ==
    [i \in 1..Len(s) |-> IF s[i] = from THEN to ELSE s[i]]

\* Mutation of CleanStr: every comma becomes a dot.
CleanStrEveryComma(s) == ReplaceAll(Trim(s), ",", ".")

\* val.trim().replace(',', '.')
CleanStr(s) == ReplaceFirst(Trim(s), ",", ".")

\* Mutation of parseValue: the typeof val === 'number' branch is missing.
parseValueNoNumberBranch(val) ==
    IF val.t = "str"
    THEN LET num == ParseFloat(StripNonNumber(CleanStr(val.s)))
         IN  IF num.nan THEN 0 ELSE num.v
    ELSE 0

parseValue(val) ==
    IF val.t = "num" THEN val.n
    ELSE IF val.t = "str"
    THEN LET cleanStr == CleanStr(val.s)
             numberOnly == StripNonNumber(cleanStr)
             num == ParseFloat(numberOnly)
         IN  IF num.nan THEN 0 ELSE num.v
    ELSE 0

\* ------------------------------------------- parseValue on one cell value

\* Characters of the text cells: digits, both separators, the sign, white
\* space and a letter.
ValueChars == {"1", "5", ".", ",", "-", " ", "a", "b", "c"}

Texts == UNION {[1..n -> ValueChars] : n \in 0..MaxLen}

\* Numeric cells, in 1/Scale units: 0, 12.5, -3, 45000.
NumberCells == {Num(0), Num(125 * (Scale \div 10)), Num(-3 * Scale), Num(45000 * Scale)}

ValueCells == {Str(s) : s \in Texts} \cup NumberCells \cup {Blank, Bool}

ValueIdle == cell = Blank /\ numOut = 0 /\ valPc = "idle"

AggIdle == rawData = <<>> /\ hourlyData = <<>> /\ aggPc = "idle"

DateIdle == dateIn = Blank /\ timeIn = Blank /\ dateOut = <<>>

CsvIdle ==
    /\ csvData = <<>>
    /\ csvConfig = <<>>
    /\ csvOut = <<>>
    /\ csvPc = "idle"
    /\ exportSel = <<>>

ReportIdle == isGenerating = FALSE /\ aiCalls = <<>> /\ apiKey = FALSE

AppIdle ==
    /\ project = <<>>
    /\ viewMode = "idle"
    /\ loading = FALSE
    /\ selectedFiles = <<>>
    /\ alertMsg = "none"
    /\ pending = <<>>
    /\ savedFile = <<>>
    /\ loadLog = <<>>
    /\ ReportIdle

\* cpe: string | null
NoCpe == [null |-> TRUE, s |-> <<>>]

Cpe(s) == [null |-> FALSE, s |-> s]

ParseIdle ==
    /\ files = <<>>
    /\ mapping = <<>>
    /\ fIndex = 0
    /\ allRows = <<>>
    /\ detectedCpe = NoCpe
    /\ parsePc = "idle"
    /\ data = <<>>

InitValue ==
    /\ tz = 0
    /\ now = 0
    /\ ParseIdle
    /\ cell \in ValueCells
    /\ numOut = 0
    /\ valPc = "call"
    /\ AggIdle
    /\ DateIdle
    /\ CsvIdle
    /\ AppIdle

CallParseValue ==
    /\ valPc = "call"
    /\ numOut' = parseValue(cell)
    /\ valPc' = "ret"
    /\ UNCHANGED <<tz, now, cell, aggVars, parseVars, dateVars,
                   csvVars, appVars, fileVars, reportVars>>

NextValue == CallParseValue

SpecValue == InitValue /\ [][NextValue]_vars

NaNToZero(num) == IF num.nan THEN 0 ELSE num.v

HasDigit(s) == \E i \in 1..Len(s) : IsDigit(s[i])

\* C9: parseValue returns a number for every cell value: a numeric cell
\* unchanged, 0 for a cell that is neither a number nor a text, and 0 for a
\* text in which no number can be read (one without a digit, like "abc").
ParseValueTotalFailSoft ==
    valPc = "ret" =>
        /\ numOut \in Int
        /\ cell.t = "num" => numOut = cell.n
        /\ cell.t \notin {"num", "str"} => numOut = 0
        /\ (cell.t = "str" /\ ~HasDigit(cell.s)) => numOut = 0

\* C9 witness: the text "abc" has been normalised to 0.
ParseValueAbcIsZero ==
    /\ valPc = "ret"
    /\ cell = Str(<<"a", "b", "c">>)
    /\ numOut = 0

\* One pass over the text: a digit, a dot and a minus sign are kept, the
\* first comma becomes a dot, every other character (white space and later
\* commas included) is dropped.
RECURSIVE FirstCommaPass(_, _)
FirstCommaPass(s, seenComma) ==
    IF s = <<>> THEN <<>>
    ELSE IF IsNumberChar(Head(s))
    THEN <<Head(s)>> \o FirstCommaPass(Tail(s), seenComma)
    ELSE IF Head(s) = "," /\ ~seenComma
    THEN <<".">> \o FirstCommaPass(Tail(s), TRUE)
    ELSE FirstCommaPass(Tail(s), seenComma)

\* C10 as amended: for a text cell parseValue returns the number read from
\* the text with its FIRST comma turned into a dot and every other character
\* that is not a digit, a dot or a minus sign removed (0 when no number can
\* be read).
ParseValueFirstCommaOnly ==
    (valPc = "ret" /\ cell.t = "str") =>
        numOut = NaNToZero(ParseFloat(FirstCommaPass(cell.s, FALSE)))

\* C10 witness: ",,1" has been read as 0.1 (".1" after the second comma is
\* dropped).
ParseValueTwoCommas ==
    /\ valPc = "ret"
    /\ cell = Str(<<",", ",", "1">>)
    /\ numOut = Scale \div 10

\* C10 as stated: every comma is turned into a dot before the other
\* characters are removed and the text is parsed.
ParseValueEveryComma ==
    (valPc = "ret" /\ cell.t = "str") =>
        numOut = NaNToZero(ParseFloat(StripNonNumber(ReplaceAll(Trim(cell.s), ",", "."))))

\* ------------------------------------------------------- numbers and dates

Abs(n) == IF n < 0 THEN -n ELSE n

\* Smallest spacing 2^e at which q = num/den has at most Prec significant
\* bits (1 below 2^Prec: every small integer is a number).
RECURSIVE Spacing(_, _, _)
Spacing(num, den, s) ==
    IF num < (2 ^ Prec) * s * den THEN s ELSE Spacing(num, den, 2 * s)

\* The number nearest to num/den (den > 0), ties to even.
RoundToPrec(num, den) ==
    LET a == Abs(num)
        s == Spacing(a, den, 1)
        k == a \div (den * s)
        r == a - k * den * s
        up == 2 * r > den * s \/ (2 * r = den * s /\ k % 2 = 1)
        m == (IF up THEN k + 1 ELSE k) * s
    IN  IF num < 0 THEN -m ELSE m

\* a + b and a / n of two numbers, rounded as the arithmetic rounds them.
FAdd(a, b) == RoundToPrec(a + b, 1)

FDiv(a, n) == RoundToPrec(a, n)

\* Days since 1970-01-01 of the civil date y-m-d (proleptic Gregorian).
DaysFromCivil(y, m, d) ==
    LET yy == IF m <= 2 THEN y - 1 ELSE y
        era == yy \div 400
        yoe == yy - era * 400
        mp == IF m > 2 THEN m - 3 ELSE m + 9
        doy == (153 * mp + 2) \div 5 + d - 1
        doe == yoe * 365 + yoe \div 4 - yoe \div 100 + doy
    IN  era * 146097 + doe - 719468

\* The civil date <<y, m, d>> of a day count since 1970-01-01.
CivilFromDays(z) ==
    LET zz == z + 719468
        era == zz \div 146097
        doe == zz - era * 146097
        yoe == (doe - doe \div 1460 + doe \div 36524 - doe \div 146096) \div 365
        doy == doe - (365 * yoe + yoe \div 4 - yoe \div 100)
        mp == (5 * doy + 2) \div 153
        d == doy - (153 * mp + 2) \div 5 + 1
        m == IF mp < 10 THEN mp + 3 ELSE mp - 9
        y == yoe + era * 400
    IN  <<IF m <= 2 THEN y + 1 ELSE y, m, d>>

\* The fields <<year, month, day, hour, minute>> of instant t read in the
\* zone at offset off.
Fields(t, off) ==
    LET lt == t + off
        ymd == CivilFromDays(lt \div 1440)
    IN  <<ymd[1], ymd[2], ymd[3], (lt % 1440) \div 60, lt % 60>>

\* The instant whose fields in the zone at offset off are f.
FromFields(f, off) ==
    DaysFromCivil(f[1], f[2], f[3]) * 1440 + f[4] * 60 + f[5] - off

\* Date.prototype.toISOString: the UTC fields (seconds and milliseconds are
\* 0 in every instant of the model).
ToISOString(t) == Fields(t, 0)

\* Mutation of DateFromISO: the key is read as a local time.
DateFromISOAsLocal(k) == FromFields(k, tz)

\* new Date(isoString)
DateFromISO(k) == FromFields(k, 0)

\* Mutation of SetMinutesZero: the minutes are kept.
SetMinutesKept(t, off) == t

\* d.setMinutes(0, 0, 0): the minute of the LOCAL time is cleared.
SetMinutesZero(t, off) == t - ((t + off) % 60)

\* Mutation of InsertSorted: the comparison is not applied (no sort).
InsertUnsorted(x, sorted) == sorted \o <<x>>

\* A sort step that merges: x is dropped when an element already holds its
\* timestamp.
InsertSortedUnique(x, sorted) ==
    IF \E i \in 1..Len(sorted) : sorted[i].timestamp = x.timestamp THEN sorted
    ELSE LET before == SelectSeq(sorted, LAMBDA y : y.timestamp < x.timestamp)
             after == SelectSeq(sorted, LAMBDA y : y.timestamp > x.timestamp)
         IN  before \o <<x>> \o after

\* The list left as it was pushed.
SortByTimestampOmitted(rows) == rows

\* One step of a stable sort by timestamp: x goes after every element that
\* is not later than it.
RECURSIVE InsertSorted(_, _)
InsertSorted(x, sorted) ==
    IF sorted = <<>> THEN <<x>>
    ELSE IF sorted[Len(sorted)].timestamp <= x.timestamp THEN sorted \o <<x>>
    ELSE InsertSorted(x, SubSeq(sorted, 1, Len(sorted) - 1))
         \o <<sorted[Len(sorted)]>>

\* Array.prototype.sort((a, b) => a.timestamp.getTime() - b.timestamp.getTime()):
\* ascending, stable.
RECURSIVE SortByTimestamp(_)
SortByTimestamp(rows) ==
    IF rows = <<>> THEN <<>>
    ELSE InsertSorted(rows[Len(rows)],
                      SortByTimestamp(SubSeq(rows, 1, Len(rows) - 1)))

\* ------------------------------------------------------------ parseDateTime

\* Absent column or row of a mapping (undefined).
Undef == -1

\* s split at every character of seps (String.prototype.split with a
\* character class): the list of the parts, empty parts included.
RECURSIVE SplitFrom(_, _, _, _)
SplitFrom(s, seps, cur, parts) ==
    IF s = <<>> THEN Append(parts, cur)
    ELSE IF Head(s) \in seps
    THEN SplitFrom(Tail(s), seps, <<>>, Append(parts, cur))
    ELSE SplitFrom(Tail(s), seps, Append(cur, Head(s)), parts)

Split(s, seps) == SplitFrom(s, seps, <<>>, <<>>)

\* parseInt(s): leading white space, an optional sign, the longest run of
\* digits; NaN without a digit.  The result is [nan, v].
ParseInt(s) ==
    LET u == TrimLeft(s)
        neg == u # <<>> /\ Head(u) = "-"
        body == IF u # <<>> /\ Head(u) \in {"-", "+"} THEN Tail(u) ELSE u
        n == DigitRun(body)
        v == DigitsValue(SubSeq(body, 1, n))
    IN  IF n = 0 THEN [nan |-> TRUE, v |-> 0]
        ELSE [nan |-> FALSE, v |-> IF neg THEN -v ELSE v]

\* A Date: valid with its instant, or Invalid Date.
ValidDate(t) == [valid |-> TRUE, t |-> t]

InvalidDate == [valid |-> FALSE, t |-> 0]

\* String(v) of a cell that is not a number.
RECURSIVE NatToText(_)
NatToText(k) ==
    IF k < 10 THEN <<Digits[k + 1]>>
    ELSE NatToText(k \div 10) \o <<Digits[(k % 10) + 1]>>

\* The digits of the fraction f/unit without trailing zeros.
RECURSIVE FractionToText(_, _)
FractionToText(f, unit) ==
    IF f = 0 \/ unit < 10 THEN <<>>
    ELSE <<Digits[(f \div (unit \div 10)) + 1]>>
         \o FractionToText(f % (unit \div 10), unit \div 10)

\* String(v): the text of a cell value.
ToText(v) ==
    IF v.t = "str" THEN v.s
    ELSE IF v.t = "num"
    THEN LET a == Abs(v.n)
             frac == FractionToText(a % Scale, Scale)
         IN  (IF v.n < 0 THEN <<"-">> ELSE <<>>)
             \o NatToText(a \div Scale)
             \o (IF frac = <<>> THEN <<>> ELSE <<".">> \o frac)
    ELSE IF v.t = "bool" THEN <<"t", "r", "u", "e">>
    ELSE <<"u", "n", "d", "e", "f", "i", "n", "e", "d">>

\* num/den (num >= 0, den > 0) rounded to the nearest integer, ties to even.
RoundHalfEven(num, den) ==
    LET k == num \div den
        r == num - k * den
    IN  IF 2 * r > den \/ (2 * r = den /\ k % 2 = 1) THEN k + 1 ELSE k

\* The product computed without rounding error.
SerialToDateExact(n) ==
    LET x == n - 25569 * Scale
    IN  ValidDate((x \div Scale) * 1440 + ((x % Scale) * 1440) \div Scale)

\* new Date((serial - 25569) * 86400 * 1000), to the whole minute below
\* (the Date keeps whole milliseconds and setSeconds(0, 0) clears what is
\* below the minute).  The serial is a count of 1/Scale days; the whole
\* days give whole minutes and the product of the day fraction is rounded
\* to DateBits fractional bits before it is cut.
SerialToDate(n) ==
    LET x == n - 25569 * Scale
        q == x \div Scale
        r == x % Scale
        k == RoundHalfEven(r * 1440 * (2 ^ DateBits), Scale)
    IN  ValidDate(q * 1440 + k \div (2 ^ DateBits))

\* SerialToDate of the serial n / Scale + u / (Scale * SubUnits): the
\* product of the day fraction is a + (b * SubUnits + 1440 * 2^DateBits * u)
\* / (Scale * SubUnits), rounded as in SerialToDate.
SerialToDateFine(n, u) ==
    LET x == n - 25569 * Scale
        q == x \div Scale
        r == x % Scale
        m == 1440 * (2 ^ DateBits)
        a == (r * m) \div Scale
        b == (r * m) % Scale
        den == Scale * SubUnits
        k == a - (a % 2)
             + RoundHalfEven(b * SubUnits + m * u + (a % 2) * den, den)
    IN  ValidDate(q * 1440 + k \div (2 ^ DateBits))

\* new Date(year, monthIndex, day, hours, minutes): local time; a month or a
\* day out of range carries over; a NaN argument gives Invalid Date; a year
\* 0..99 is 1900 + year.
MakeLocalDate(y, mi, d, h, mn, off) ==
    IF y.nan \/ mi.nan \/ d.nan \/ h.nan \/ mn.nan THEN InvalidDate
    ELSE LET yr == IF y.v \in 0..99 THEN 1900 + y.v ELSE y.v
             ym == yr * 12 + mi.v
             day0 == DaysFromCivil(ym \div 12, (ym % 12) + 1, 1)
         IN  ValidDate((day0 + d.v - 1) * 1440 + h.v * 60 + mn.v - off)

Known(k) == [nan |-> FALSE, v |-> k]

AllDigits(s) == s # <<>> /\ \A i \in 1..Len(s) : IsDigit(s[i])

\* new Date(text): the ISO date YYYY-MM-DD is midnight UTC; the forms
\* M/D/YYYY and YYYY/M/D, which every browser reads, are local midnight;
\* any other text of the model is Invalid Date.
NativeDateParse(s, off) ==
    LET u == Trim(s)
        iso == Split(u, {"-"})
        sl == Split(u, {"/"})
    IN  IF Len(iso) = 3 /\ Len(iso[1]) = 4 /\ Len(iso[2]) = 2 /\ Len(iso[3]) = 2
           /\ AllDigits(iso[1]) /\ AllDigits(iso[2]) /\ AllDigits(iso[3])
           /\ DigitsValue(iso[2]) \in 1..12 /\ DigitsValue(iso[3]) \in 1..31
        THEN MakeLocalDate(Known(DigitsValue(iso[1])), Known(DigitsValue(iso[2]) - 1),
                           Known(DigitsValue(iso[3])), Known(0), Known(0), 0)
        ELSE IF Len(sl) = 3 /\ AllDigits(sl[1]) /\ AllDigits(sl[2]) /\ AllDigits(sl[3])
                /\ Len(sl[3]) = 4 /\ DigitsValue(sl[1]) \in 1..12
                /\ DigitsValue(sl[2]) \in 1..31
        THEN MakeLocalDate(Known(DigitsValue(sl[3])), Known(DigitsValue(sl[1]) - 1),
                           Known(DigitsValue(sl[2])), Known(0), Known(0), off)
        ELSE IF Len(sl) = 3 /\ AllDigits(sl[1]) /\ AllDigits(sl[2]) /\ AllDigits(sl[3])
                /\ Len(sl[1]) = 4 /\ DigitsValue(sl[2]) \in 1..12
                /\ DigitsValue(sl[3]) \in 1..31
        THEN MakeLocalDate(Known(DigitsValue(sl[1])), Known(DigitsValue(sl[2]) - 1),
                           Known(DigitsValue(sl[3])), Known(0), Known(0), off)
        ELSE InvalidDate

\* d.setHours(hours, minutes, 0, 0): the LOCAL day of d at hours:minutes.
SetHours(d, hours, minutes, off) ==
    IF ~d.valid \/ hours.nan \/ minutes.nan THEN InvalidDate
    ELSE ValidDate(((d.t + off) \div 1440) * 1440 + hours.v * 60 + minutes.v - off)

\* date.getFullYear(): the LOCAL year.
GetFullYear(d, off) == Fields(d.t, off)[1]

\* timeVal !== undefined && timeVal !== null && String(timeVal).trim() !== ''
HasTime(timeVal) == timeVal.t # "blank" /\ Trim(ToText(timeVal)) # <<>>

\* Mutation of SerialPlusTime: the two numbers are added as they are.
SerialPlusTimeWhole(dateVal, timeVal) ==
    SerialToDateFine(dateVal.n + timeVal.n, timeVal.u)

\* Sub-case 1.1: Math.floor(dateVal) + (timeVal % 1), the remainder taking
\* the sign of timeVal.
SerialPlusTime(dateVal, timeVal) ==
    LET frac == IF timeVal.n < 0 THEN -((-timeVal.n) % Scale) ELSE timeVal.n % Scale
    IN  SerialToDateFine((dateVal.n \div Scale) * Scale + frac, timeVal.u)

\* Sub-case 1.2, step 1: the date part (wall is the value of new Date()).
DatePart(dateVal, off, wall) ==
    IF dateVal.t = "num" THEN SerialToDateFine(dateVal.n, dateVal.u)
    ELSE LET dStr == Trim(ToText(dateVal))
             parts == Split(dStr, {"/", "-", " "})
         IN  IF Len(parts) >= 3
             THEN LET p1 == ParseInt(parts[1])
                      p2 == ParseInt(parts[2])
                      p3 == ParseInt(parts[3])
                  IN  IF ~p3.nan /\ p3.v > 1000
                      THEN MakeLocalDate(p3, [p2 EXCEPT !.v = @ - 1], p1,
                                         Known(0), Known(0), off)
                      ELSE IF ~p1.nan /\ p1.v > 1000
                      THEN MakeLocalDate(p1, [p2 EXCEPT !.v = @ - 1], p3,
                                         Known(0), Known(0), off)
                      ELSE ValidDate(wall)
             ELSE NativeDateParse(dStr, off)

\* Sub-case 1.2, step 2: <<hours, minutes>> of the time part.
TimePart(timeVal) ==
    IF timeVal.t = "num"
    THEN LET w == timeVal.n \div Scale
             f == timeVal.n % Scale
             q == (f * 86400) \div Scale
             r == (f * 86400) % Scale
             den == Scale * SubUnits
             part == r * SubUnits + 86400 * timeVal.u
             totalSeconds == w * 86400 + q + (2 * part + den) \div (2 * den)
             rem == IF totalSeconds < 0 THEN -((-totalSeconds) % 3600)
                    ELSE totalSeconds % 3600
         IN  <<Known(totalSeconds \div 3600), Known(rem \div 60)>>
    ELSE LET tParts == Split(Trim(ToText(timeVal)), {":"})
         IN  IF Len(tParts) >= 2
             THEN <<ParseInt(tParts[1]), ParseInt(tParts[2])>>
             ELSE <<Known(0), Known(0)>>

\* Case 2: one cell holds date and time.
SingleCell(dateVal, off) ==
    IF dateVal.t = "num" THEN SerialToDateFine(dateVal.n, dateVal.u)
    ELSE IF dateVal.t = "str"
    THEN LET d == NativeDateParse(dateVal.s, off)
             parts == Split(dateVal.s, {"/", "-", " ", ":"})
         IN  IF d.valid THEN d
             ELSE IF Len(parts) >= 5
             THEN MakeLocalDate(ParseInt(parts[3]),
                                [ParseInt(parts[2]) EXCEPT !.v = @ - 1],
                                ParseInt(parts[1]), ParseInt(parts[4]),
                                ParseInt(parts[5]), off)
             ELSE InvalidDate
    ELSE InvalidDate

\* finalDate before the validity gate (Invalid for null or Invalid Date).
FinalDate(dateVal, timeVal, off, wall) ==
    IF HasTime(timeVal)
    THEN IF dateVal.t = "num" /\ timeVal.t = "num"
         THEN SerialPlusTime(dateVal, timeVal)
         ELSE LET d == DatePart(dateVal, off, wall)
                  hm == TimePart(timeVal)
              IN  IF d.valid THEN SetHours(d, hm[1], hm[2], off)
                  ELSE InvalidDate
    ELSE SingleCell(dateVal, off)

\* Mutation of parseDateTime: the validity gate is missing.
parseDateTimeUngated(dateVal, timeVal, off, wall) ==
    FinalDate(dateVal, timeVal, off, wall)

\* parseDateTime(dateVal, timeVal): a Date, or Invalid for null.
parseDateTime(dateVal, timeVal, off, wall) ==
    LET finalDate == FinalDate(dateVal, timeVal, off, wall)
    IN  IF finalDate.valid /\ GetFullYear(finalDate, off) > 1990
        THEN finalDate
        ELSE InvalidDate

\* ------------------------------------------------- parseDateTime: the calls

\* The serial of a day and a thousandth of a day.
Serial(day, thousandths) == Num(day * Scale + thousandths * (Scale \div 1000))

\* The date cells of the model: serials of 2023-03-15 at 00:00, 00:02:52.8,
\* 12:00, 14:29:45.6 and 23:58:33.6, of 1990-12-31, of 1991-01-01 at 00:00
\* and 12:00 and of 1899-12-30; the texts "2023-03-15", "15/03/2023",
\* "01/02/24", "abc", "a-b-c" and "15/03/2023 14:30"; an empty cell and a
\* boolean.
DateCells ==
    {Serial(45000, 0), Serial(45000, 2), Serial(45000, 500), Serial(45000, 604),
     Serial(45000, 999), Serial(33238, 0), Serial(33239, 0), Serial(33239, 500),
     Serial(0, 0),
     Str(<<"2", "0", "2", "3", "-", "0", "3", "-", "1", "5">>),
     Str(<<"1", "5", "/", "0", "3", "/", "2", "0", "2", "3">>),
     Str(<<"0", "1", "/", "0", "2", "/", "2", "4">>),
     Str(<<"a", "b", "c">>), Str(<<"a", "-", "b", "-", "c">>),
     Str(<<"1", "5", "/", "0", "3", "/", "2", "0", "2", "3", " ",
           "1", "4", ":", "3", "0">>),
     Blank, Bool}

\* The day fraction that is parts of 200000 of a day short of midnight.
BeforeMidnight(parts) ==
    NumFine(Scale - 1, SubUnits - (parts * Scale * SubUnits) \div 200000)

\* The time cells of the model: none, the texts "14:30", "08:15",
\* "14:30:00", " " and "1:xx", the day fractions 0.5 and 0.75, the number
\* 1.25, and the day fractions 0.99999 and 0.999995 (23:59:59.136 and
\* 23:59:59.568).
TimeCells ==
    {Blank,
     Str(<<"1", "4", ":", "3", "0">>), Str(<<"0", "8", ":", "1", "5">>),
     Str(<<"1", "4", ":", "3", "0", ":", "0", "0">>),
     Str(<<" ">>), Str(<<"1", ":", "x", "x">>),
     Num(Scale \div 2), Num(3 * (Scale \div 4)), Num(Scale + Scale \div 4),
     BeforeMidnight(2), BeforeMidnight(1)}

\* The wall clock when the first call is made: 2026-11-06 10:00 UTC.
WallStart == FromFields(<<2026, 11, 6, 10, 0>>, 0)

\* The wall clock between two calls: a day goes by.
DayMinutes == 1440

InitDate ==
    /\ tz \in TZOffsets
    /\ now = WallStart
    /\ ValueIdle
    /\ AggIdle
    /\ ParseIdle
    /\ CsvIdle
    /\ AppIdle
    /\ dateIn \in DateCells
    /\ timeIn \in TimeCells
    /\ dateOut = <<>>

\* A call parseDateTime(dateVal, timeVal), made at the wall-clock time now.
CallParseDateTime ==
    /\ Len(dateOut) < MaxCalls
    /\ dateOut' = Append(dateOut, parseDateTime(dateIn, timeIn, tz, now))
    /\ UNCHANGED <<tz, now, dateIn, timeIn, valueVars, aggVars, parseVars,
                   csvVars, appVars, fileVars, reportVars>>

\* Time goes by between two calls.
WallClockAdvances ==
    /\ Len(dateOut) \in 1..(MaxCalls - 1)
    /\ now < WallStart + DayMinutes * (MaxCalls - 1)
    /\ now' = now + DayMinutes
    /\ UNCHANGED <<tz, dateIn, timeIn, dateOut, valueVars, aggVars, parseVars,
                   csvVars, appVars, fileVars, reportVars>>

NextDate == CallParseDateTime \/ WallClockAdvances

SpecDate == InitDate /\ [][NextDate]_vars

\* ------------------------------------------------ parseDateTime: the claims

\* The time cell is a text HH:MM of two digits each.
IsHourMinuteText(v) ==
    /\ v.t = "str"
    /\ LET tParts == Split(v.s, {":"})
       IN  /\ Len(tParts) = 2
           /\ Len(tParts[1]) = 2 /\ AllDigits(tParts[1])
           /\ Len(tParts[2]) = 2 /\ AllDigits(tParts[2])

\* The date cell is a whole-number serial of a day after 1990.
IsWholeSerial(v) ==
    /\ v.t = "num"
    /\ v.n % Scale = 0
    /\ CivilFromDays(v.n \div Scale - 25569)[1] > 1990

\* C11: a whole-number serial with a time text HH:MM resolves, in every
\* local zone, to the calendar date of the serial at HH:MM.
SerialWithTimeTextKeepsDay ==
    (IsWholeSerial(dateIn) /\ IsHourMinuteText(timeIn)) =>
        \A i \in 1..Len(dateOut) :
            LET ymd == CivilFromDays(dateIn.n \div Scale - 25569)
                tParts == Split(timeIn.s, {":"})
            IN  /\ dateOut[i].valid
                /\ Fields(dateOut[i].t, tz)
                     = <<ymd[1], ymd[2], ymd[3],
                         DigitsValue(tParts[1]), DigitsValue(tParts[2])>>

\* C12: every returned instant is valid with a year above 1990, and the
\* call returns null exactly when finalDate is null, invalid or of a year
\* up to 1990.
ReturnedYearAbove1990 ==
    /\ \A i \in 1..Len(dateOut) :
          dateOut[i].valid => Fields(dateOut[i].t, tz)[1] > 1990
    /\ (Len(dateOut) = 1 /\ now = WallStart) =>
          LET finalDate == FinalDate(dateIn, timeIn, tz, now)
          IN  IF finalDate.valid /\ Fields(finalDate.t, tz)[1] > 1990
              THEN dateOut[1] = finalDate
              ELSE dateOut[1] = InvalidDate

\* C12 witness: west of UTC the serial of 1991-01-01 is an instant of the
\* local year 1990 and the call has returned null.
SerialOfLocalYear1990IsNull ==
    /\ tz = -300
    /\ dateIn = Serial(33239, 0)
    /\ timeIn = Blank
    /\ dateOut = <<InvalidDate>>
    /\ FinalDate(dateIn, timeIn, tz, now).valid

\* C13: a serial given without a time cell resolves to the exact instant
\* epoch + (serial - 25569) days cut down to the whole minute.
SerialIsCutToItsMinute ==
    (dateIn.t = "num" /\ ~HasTime(timeIn)) =>
        \A i \in 1..Len(dateOut) :
            dateOut[i].valid => dateOut[i] = SerialToDateExact(dateIn.n)

\* Date cells from which no date can be reconstructed.
NoDateCells == {Str(<<"a", "b", "c">>), Str(<<"a", "-", "b", "-", "c">>), Bool}

\* C14: two calls on one pair of cells return the same, whatever the wall
\* clock, and a date cell that holds no date never gives an instant.
ResolverIsPure ==
    /\ \A i \in 1..Len(dateOut) : \A j \in 1..Len(dateOut) :
          dateOut[i] = dateOut[j]
    /\ dateIn \in NoDateCells =>
          \A i \in 1..Len(dateOut) : ~dateOut[i].valid

\* ---------------------------------------------------------- parseExcelFiles

TelemetryRow(t, a, i, c) ==
    [timestamp |-> t, activePower |-> a, inductivePower |-> i, capacitivePower |-> c]

\* jsonData[i] is a row (indices count from 0; any other index reads
\* undefined).
HasRow(jsonData, i) == i \in 0..(Len(jsonData) - 1)

RowAt(jsonData, i) == jsonData[i + 1]

\* row[c]: undefined past the end of the row.
CellAt(row, c) == IF c \in 0..(Len(row) - 1) THEN row[c + 1] ELSE Blank

\* A cell value in a condition: 0, '', undefined and null are false.
Truthy(v) ==
    IF v.t = "num" THEN v.n # 0
    ELSE IF v.t = "str" THEN v.s # <<>>
    ELSE v.t = "bool"

\* Row offsets relative to the date row.
TimeOffset(m) == IF m.timeRow # Undef THEN m.timeRow - m.dateRow ELSE 0

ActiveOffset(m) == m.activeRow - m.dateRow

InductiveOffset(m) == m.inductiveRow - m.dateRow

CapacitiveOffset(m) == m.capacitiveRow - m.dateRow

\* Mutation of ReadCpe: the identifier is read from every file.
ReadCpeEveryFile(jsonData, m, f, cpe) ==
    IF m.cpeRow # Undef /\ m.cpeCol # Undef
       /\ HasRow(jsonData, m.cpeRow)
       /\ Truthy(CellAt(RowAt(jsonData, m.cpeRow), m.cpeCol))
    THEN Cpe(Trim(ToText(CellAt(RowAt(jsonData, m.cpeRow), m.cpeCol))))
    ELSE cpe

\* Extract CPE from the first file only: detectedCpe after file f.
ReadCpe(jsonData, m, f, cpe) ==
    IF f = 0 /\ m.cpeRow # Undef /\ m.cpeCol # Undef
       /\ HasRow(jsonData, m.cpeRow)
       /\ Truthy(CellAt(RowAt(jsonData, m.cpeRow), m.cpeCol))
    THEN Cpe(Trim(ToText(CellAt(RowAt(jsonData, m.cpeRow), m.cpeCol))))
    ELSE cpe

\* The time value of row i, read with the time offset.
TimeValAt(jsonData, m, i) ==
    IF m.timeCol # Undef /\ HasRow(jsonData, i + TimeOffset(m))
    THEN CellAt(RowAt(jsonData, i + TimeOffset(m)), m.timeCol)
    ELSE Blank

\* Mutation of QuantityAt: the value is read in the date row itself.
QuantityAtDateRow(jsonData, i, offset, col) ==
    IF HasRow(jsonData, i) THEN parseValue(CellAt(RowAt(jsonData, i), col)) ELSE 0

\* Mutation of QuantityAt: a target row below the last row reads the last
\* row.
QuantityAtClamped(jsonData, i, offset, col) ==
    IF HasRow(jsonData, i + offset)
    THEN parseValue(CellAt(RowAt(jsonData, i + offset), col))
    ELSE IF i + offset >= Len(jsonData) /\ Len(jsonData) > 0
    THEN parseValue(CellAt(RowAt(jsonData, Len(jsonData) - 1), col))
    ELSE 0

\* if (jsonData[i + offset]) value = parseValue(jsonData[i + offset][col]),
\* else the initial 0.
QuantityAt(jsonData, i, offset, col) ==
    IF HasRow(jsonData, i + offset)
    THEN parseValue(CellAt(RowAt(jsonData, i + offset), col))
    ELSE 0

\* The date of row i: parseDateTime(dateVal, timeVal), Invalid for an empty
\* row (continue) and for null.
DateAt(jsonData, m, i, off, wall) ==
    IF Len(RowAt(jsonData, i)) = 0 THEN InvalidDate
    ELSE parseDateTime(CellAt(RowAt(jsonData, i), m.dateCol),
                       TimeValAt(jsonData, m, i), off, wall)

\* The reading pushed for row i when its date resolves.
ReadingAt(jsonData, m, i, off, wall) ==
    TelemetryRow(DateAt(jsonData, m, i, off, wall).t,
                 QuantityAt(jsonData, i, ActiveOffset(m), m.activeCol),
                 QuantityAt(jsonData, i, InductiveOffset(m), m.inductiveCol),
                 QuantityAt(jsonData, i, CapacitiveOffset(m), m.capacitiveCol))

\* Mutation of ExtractRows: the loop stops at the first row that does not
\* resolve (break for continue).
RECURSIVE ExtractRowsUntilBad(_, _, _, _, _, _)
ExtractRowsUntilBad(jsonData, m, i, rows, off, wall) ==
    IF i >= Len(jsonData) THEN rows
    ELSE IF DateAt(jsonData, m, i, off, wall).valid
    THEN ExtractRowsUntilBad(jsonData, m, i + 1,
                             Append(rows, ReadingAt(jsonData, m, i, off, wall)), off, wall)
    ELSE rows

\* for (let i = mapping.dateRow; i < jsonData.length; i++): rows with the
\* readings of the rows from i on pushed.
RECURSIVE ExtractRows(_, _, _, _, _, _)
ExtractRows(jsonData, m, i, rows, off, wall) ==
    IF i >= Len(jsonData) THEN rows
    ELSE ExtractRows(jsonData, m, i + 1,
                     IF DateAt(jsonData, m, i, off, wall).valid
                     THEN Append(rows, ReadingAt(jsonData, m, i, off, wall))
                     ELSE rows,
                     off, wall)

\* ------------------------------------------ parseExcelFiles on a few files

\* The sheets of the model.  Columns: 0 date, 1 time, 2..4 the three
\* quantities, 5 (row 0 only) the installation identifier.  Row r of file f:
\*   date      the serial 45002 - r - f when the row is good; when it is not,
\*             by (f + r) % 3: a blank cell, the text "abc", or an empty row;
\*   time      by r % 4: "08:15", 0.5, "14:30", 0.75;
\*   quantity  100 f + 10 r + c, as a number when r + c is odd, as the text
\*             "<100 f + 10 r + c>,5" when it is even;
\*   id        the text " PT<f> ".
\* Every cell value tells its place, good rows are in descending date order,
\* and row 1 of file 1 has the date of row 0 of file 2.
DateCell(f, r, good) ==
    IF good THEN Num((45002 - r - f) * Scale)
    ELSE IF (f + r) % 3 = 0 THEN Blank
    ELSE Str(<<"a", "b", "c">>)

TimeCell(r) ==
    CASE r % 4 = 0 -> Str(<<"0", "8", ":", "1", "5">>)
      [] r % 4 = 1 -> Num(Scale \div 2)
      [] r % 4 = 2 -> Str(<<"1", "4", ":", "3", "0">>)
      [] OTHER -> Num(3 * (Scale \div 4))

QuantityValue(f, r, c) == 100 * f + 10 * r + c

QuantityCell(f, r, c) ==
    IF (r + c) % 2 = 1 THEN Num(QuantityValue(f, r, c) * Scale)
    ELSE Str(NatToText(QuantityValue(f, r, c)) \o <<",", "5">>)

\* The number parseValue reads in QuantityCell(f, r, c).
QuantityRead(f, r, c) ==
    IF (r + c) % 2 = 1 THEN QuantityValue(f, r, c) * Scale
    ELSE QuantityValue(f, r, c) * Scale + Scale \div 2

CpeCell(f) == Str(<<" ", "P", "T", Digits[f + 1], " ">>)

SheetRow(f, r, good) ==
    IF ~good /\ (f + r) % 3 = 2 THEN <<>>
    ELSE <<DateCell(f, r, good), TimeCell(r),
           QuantityCell(f, r, 2), QuantityCell(f, r, 3), QuantityCell(f, r, 4)>>
         \o (IF r = 0 THEN <<CpeCell(f)>> ELSE <<>>)

\* A file XLSX.read cannot decode.
Unreadable == [ok |-> FALSE, id |-> 0, jsonData |-> <<>>]

\* File f as the first sheet's rows (sheet_to_json with header: 1).
Sheet(f, goods) ==
    [ok |-> TRUE, id |-> f,
     jsonData |-> [k \in 1..Len(goods) |-> SheetRow(f, k - 1, goods[k])]]

\* What file f can be: unreadable, an empty sheet, or a sheet of
\* MaxRowsPerFile rows, each with or without a date.
FileChoices(f) ==
    {Unreadable, Sheet(f, <<>>)}
    \cup {Sheet(f, goods) : goods \in [1..MaxRowsPerFile -> BOOLEAN]}

RECURSIVE FileLists(_)
FileLists(n) ==
    IF n = 0 THEN {<<>>}
    ELSE {Append(fs, x) : fs \in FileLists(n - 1), x \in FileChoices(n)}

\* The mappings of the model: no offsets and no time column; the time and
\* two quantities one row below the date row, with the identifier; the time
\* and a quantity above the date row, a quantity two rows below it and the
\* identifier anchored on an empty cell; the quantity columns swapped.
MapPlain ==
    [dateCol |-> 0, dateRow |-> 0, timeCol |-> Undef, timeRow |-> Undef,
     activeCol |-> 2, activeRow |-> 0, inductiveCol |-> 3, inductiveRow |-> 0,
     capacitiveCol |-> 4, capacitiveRow |-> 0, cpeRow |-> Undef, cpeCol |-> Undef]

MapOffsets ==
    [dateCol |-> 0, dateRow |-> 0, timeCol |-> 1, timeRow |-> 1,
     activeCol |-> 2, activeRow |-> 0, inductiveCol |-> 3, inductiveRow |-> 1,
     capacitiveCol |-> 4, capacitiveRow |-> 1, cpeRow |-> 0, cpeCol |-> 5]

MapTimeAbove ==
    [dateCol |-> 0, dateRow |-> 1, timeCol |-> 1, timeRow |-> 0,
     activeCol |-> 2, activeRow |-> 1, inductiveCol |-> 3, inductiveRow |-> 3,
     capacitiveCol |-> 4, capacitiveRow |-> 0, cpeRow |-> 1, cpeCol |-> 5]

MapSwapped ==
    [dateCol |-> 0, dateRow |-> 0, timeCol |-> 1, timeRow |-> 0,
     activeCol |-> 4, activeRow |-> 0, inductiveCol |-> 3, inductiveRow |-> 0,
     capacitiveCol |-> 2, capacitiveRow |-> 0, cpeRow |-> 0, cpeCol |-> 5]

Mappings == {MapPlain, MapOffsets, MapTimeAbove, MapSwapped}

InitParse ==
    /\ tz \in TZOffsets
    /\ now = 0
    /\ ValueIdle
    /\ AggIdle
    /\ DateIdle
    /\ CsvIdle
    /\ AppIdle
    /\ files \in UNION {FileLists(n) : n \in 1..MaxFiles}
    /\ mapping \in Mappings
    /\ fIndex = 0
    /\ allRows = <<>>
    /\ detectedCpe = NoCpe
    /\ parsePc = "loop"
    /\ data = <<>>

\* One turn of the loop over the files: the sheet is read (the promise is
\* rejected when it cannot be), the identifier is taken from the first file
\* and the readings of the rows from the date row on are pushed.
ReadFile ==
    /\ parsePc = "loop"
    /\ fIndex < Len(files)
    /\ LET file == files[fIndex + 1]
       IN  IF ~file.ok
           THEN /\ parsePc' = "error"
                /\ UNCHANGED <<fIndex, allRows, detectedCpe>>
           ELSE /\ detectedCpe' = ReadCpe(file.jsonData, mapping, fIndex, detectedCpe)
                /\ allRows' = ExtractRows(file.jsonData, mapping, mapping.dateRow,
                                          allRows, tz, now)
                /\ fIndex' = fIndex + 1
                /\ UNCHANGED parsePc
    /\ UNCHANGED <<tz, now, files, mapping, data, valueVars, aggVars, dateVars,
                   csvVars, appVars, fileVars, reportVars>>

\* After the last file: allRows is sorted in place and returned with the
\* identifier.
ReturnSorted ==
    /\ parsePc = "loop"
    /\ fIndex = Len(files)
    /\ allRows' = SortByTimestamp(allRows)
    /\ data' = allRows'
    /\ parsePc' = "done"
    /\ UNCHANGED <<tz, now, files, mapping, fIndex, detectedCpe, valueVars, aggVars,
                   dateVars,
                   csvVars, appVars, fileVars, reportVars>>

NextParse == ReadFile \/ ReturnSorted

SpecParse == InitParse /\ [][NextParse]_vars

\* ------------------------------------------- parseExcelFiles: the claims

\* Occurrences of x in a list.
CountIn(seq, x) == Cardinality({i \in 1..Len(seq) : seq[i] = x})

\* Two lists hold the same elements the same number of times.
SameReadings(a, b) ==
    /\ Len(a) = Len(b)
    /\ \A i \in 1..Len(a) : CountIn(a, a[i]) = CountIn(b, a[i])

Ascending(rows) ==
    \A i \in 1..(Len(rows) - 1) : rows[i].timestamp <= rows[i + 1].timestamp

\* The row indices from first to the last row of a sheet, in order.
RowsFrom(jsonData, first) ==
    IF Len(jsonData) <= first THEN <<>>
    ELSE [k \in 1..(Len(jsonData) - first) |-> first + k - 1]

\* The rows of a sheet from the date row on whose date resolves, in order.
ResolvingRows(jsonData, m, off, wall) ==
    SelectSeq(RowsFrom(jsonData, m.dateRow),
              LAMBDA i : DateAt(jsonData, m, i, off, wall).valid)

\* One reading for each resolving row, none for the others.
RowReadings(jsonData, m, off, wall) ==
    LET rr == ResolvingRows(jsonData, m, off, wall)
    IN  [j \in 1..Len(rr) |-> ReadingAt(jsonData, m, rr[j], off, wall)]

\* The readings of the first n files of fs, file after file.
RECURSIVE ReadingsOfFiles(_, _)
ReadingsOfFiles(fs, n) ==
    IF n = 0 THEN <<>>
    ELSE ReadingsOfFiles(fs, n - 1)
         \o RowReadings(fs[n].jsonData, mapping, tz, now)

\* C3: the returned series is in ascending timestamp order and holds the
\* readings extracted from each file, each as many times as it was
\* extracted: none is dropped, none is merged.
MergedIsSortedPermutation ==
    parsePc = "done" =>
        /\ Ascending(data)
        /\ SameReadings(data, ReadingsOfFiles(files, Len(files)))

\* C3 witness: two readings of two files with one timestamp are both in the
\* returned series.
MergedKeepsDuplicateTimestamps ==
    /\ parsePc = "done"
    /\ Len(files) = 2
    /\ \E i \in 1..Len(data) : \E j \in 1..Len(data) :
          /\ i < j
          /\ data[i].timestamp = data[j].timestamp
          /\ data[i].activePower \div (100 * Scale) = 1
          /\ data[j].activePower \div (100 * Scale) = 2

FileOrders(n) ==
    {p \in [1..n -> 1..n] : \A i \in 1..n : \A j \in 1..n : p[i] = p[j] => i = j}

\* The readings extracted from each of the first n files.
RECURSIVE ReadingsPerFileUpTo(_)
ReadingsPerFileUpTo(n) ==
    IF n = 0 THEN <<>>
    ELSE LET readings == RowReadings(files[n].jsonData, mapping, tz, now)
         IN  Append(ReadingsPerFileUpTo(n - 1),
                    IF Len(readings) = 0 THEN <<>> ELSE <<>> \o readings)

ReadingsPerFile == ReadingsPerFileUpTo(Len(files))

\* The lists of per, taken in the order p, one after the other.
RECURSIVE Concatenated(_, _, _)
Concatenated(per, p, n) ==
    IF n = 0 THEN <<>> ELSE Concatenated(per, p, n - 1) \o per[p[n]]

\* What parseExcelFiles returns for the files taken in the order p: the
\* per-file readings per concatenated in that order, then sorted.
MergedInOrder(per, p) == SortByTimestamp(Concatenated(per, p, Len(files)))

\* No instant is the timestamp of readings of two files.
NoSharedTimestamp ==
    LET per == ReadingsPerFile
    IN  \A a \in 1..Len(files) : \A b \in 1..Len(files) :
            a # b =>
                \A i \in 1..Len(per[a]) : \A j \in 1..Len(per[b]) :
                    per[a][i].timestamp # per[b][j].timestamp

\* C4 as amended: for every order of the files the returned series holds
\* the same readings in ascending timestamp order, and it is the same
\* sequence when no timestamp occurs in two files.
MergedSameUpToTies ==
    parsePc = "done" =>
        LET per == ReadingsPerFile
            distinct == NoSharedTimestamp
        IN  \A p \in FileOrders(Len(files)) :
                LET merged == MergedInOrder(per, p)
                IN  /\ Ascending(merged)
                    /\ SameReadings(merged, data)
                    /\ distinct => merged = data

\* C4 witness: two files with readings and no shared timestamp have been
\* merged, the later file holding the earlier readings, and the series is
\* the one the other order gives.
MergedTwoDisjointFiles ==
    /\ parsePc = "done"
    /\ Len(files) = 2
    /\ NoSharedTimestamp
    /\ Len(ReadingsPerFile[1]) >= 1
    /\ Len(ReadingsPerFile[2]) >= 1
    /\ ReadingsPerFile[2][1].timestamp < ReadingsPerFile[1][1].timestamp
    /\ MergedInOrder(ReadingsPerFile, <<2, 1>>) = data

\* C4 as stated: the returned sequence is the same for every order of the
\* files.
MergedSameForEveryOrder ==
    parsePc = "done" =>
        LET per == ReadingsPerFile
        IN  \A p \in FileOrders(Len(files)) : MergedInOrder(per, p) = data

\* C5: while the files are read, the readings pushed are exactly one for
\* each row, from the date row on, whose timestamp resolves, in row order,
\* each a function of the sheet and of its own row alone; a row that does
\* not resolve pushes nothing and raises nothing: the promise is rejected
\* only for a file that cannot be read.
UnresolvedRowsAreSkipped ==
    /\ parsePc = "loop" => allRows = ReadingsOfFiles(files, fIndex)
    /\ parsePc = "error" => ~files[fIndex + 1].ok
    /\ parsePc = "done" => \A k \in 1..Len(files) : files[k].ok

\* C5 witness: in the first file a row that does not resolve comes before
\* one that does, and the reading of the latter has been pushed.
SkippedRowBeforeReading ==
    /\ parsePc = "loop"
    /\ fIndex = 1
    /\ \E i \in 0..(Len(files[1].jsonData) - 1) :
          /\ i >= mapping.dateRow
          /\ ~DateAt(files[1].jsonData, mapping, i, tz, now).valid
          /\ HasRow(files[1].jsonData, i + 1)
          /\ DateAt(files[1].jsonData, mapping, i + 1, tz, now).valid
    /\ Len(allRows) >= 1

\* The rows of a sheet of the model, from the date row on, that hold a date
\* serial (all of 2023): the rows whose timestamp resolves.
SerialRows(file, m) ==
    SelectSeq(RowsFrom(file.jsonData, m.dateRow),
              LAMBDA i : /\ Len(file.jsonData[i + 1]) > 0
                         /\ file.jsonData[i + 1][m.dateCol + 1].t = "num")

\* Row r of the sheet exists and holds cells.
HoldsCells(file, r) ==
    r \in 0..(Len(file.jsonData) - 1) /\ Len(file.jsonData[r + 1]) > 0

\* The instant the sheet's layout gives row i when the time is read in row
\* tr: midnight UTC of the date serial without a time cell; the serial plus
\* the day fraction for a numeric time; the local day of the serial's
\* midnight at HH:MM for a text time.
SheetInstant(file, i, tr, m, off) ==
    LET midnight == (45002 - i - file.id - 25569) * 1440
        localDay == ((midnight + off) \div 1440) * 1440
    IN  IF m.timeCol = Undef \/ ~HoldsCells(file, tr) THEN midnight
        ELSE CASE tr % 4 = 0 -> localDay + 8 * 60 + 15 - off
               [] tr % 4 = 1 -> midnight + 12 * 60
               [] tr % 4 = 2 -> localDay + 14 * 60 + 30 - off
               [] OTHER -> midnight + 18 * 60

\* The number in column c of row r of the sheet, 0 when there is no such
\* cell.
SheetQuantity(file, r, c) ==
    IF HoldsCells(file, r) THEN QuantityRead(file.id, r, c) ELSE 0

\* The readings the layout of a sheet gives under mapping m, each field
\* read at its own row offset from the date row.
SheetReadings(file, m, off) ==
    LET rr == SerialRows(file, m)
    IN  [j \in 1..Len(rr) |->
            LET i == rr[j]
            IN  TelemetryRow(
                    SheetInstant(file, i,
                                 IF m.timeRow # Undef THEN i + m.timeRow - m.dateRow ELSE i,
                                 m, off),
                    SheetQuantity(file, i + m.activeRow - m.dateRow, m.activeCol),
                    SheetQuantity(file, i + m.inductiveRow - m.dateRow, m.inductiveCol),
                    SheetQuantity(file, i + m.capacitiveRow - m.dateRow, m.capacitiveCol))]

RECURSIVE SheetReadingsOfFiles(_, _)
SheetReadingsOfFiles(fs, n) ==
    IF n = 0 THEN <<>>
    ELSE SheetReadingsOfFiles(fs, n - 1) \o SheetReadings(fs[n], mapping, tz)

\* C6: the reading of a resolving row carries the time read at row
\* row + timeRow - dateRow (when a time column is mapped) and the three
\* quantities read, normalised, at rows row + activeRow - dateRow,
\* row + inductiveRow - dateRow and row + capacitiveRow - dateRow of their
\* mapped columns.
FieldsReadAtRowOffsets ==
    parsePc = "loop" => allRows = SheetReadingsOfFiles(files, fIndex)

\* C6 witness: under the mapping with the time, the inductive and the
\* capacitive value one row below the date row, row 0 of the first file has
\* given a reading with the time of row 1, its own active value (a text
\* with a decimal comma) and the inductive and capacitive values of row 1.
ReadingAcrossTwoRows ==
    /\ parsePc = "loop"
    /\ fIndex = 1
    /\ mapping = MapOffsets
    /\ Len(files[1].jsonData) = 2
    /\ Len(allRows) >= 1
    /\ allRows[1].timestamp = (45001 - 25569) * 1440 + 12 * 60
    /\ allRows[1].activePower = 102 * Scale + Scale \div 2
    /\ allRows[1].inductivePower = 113 * Scale + Scale \div 2
    /\ allRows[1].capacitivePower = 114 * Scale

\* The readings pushed for the file read last.
LastFileReadings ==
    LET n == Len(SerialRows(files[fIndex], mapping))
    IN  SubSeq(allRows, Len(allRows) - n + 1, Len(allRows))

\* C7: every resolving row of the file just read has its reading, and in it
\* a quantity whose target row lies outside the sheet is 0.
MissingTargetRowReadsZero ==
    (parsePc = "loop" /\ fIndex >= 1) =>
        LET file == files[fIndex]
            rr == SerialRows(file, mapping)
            last == Len(file.jsonData) - 1
            Outside(r) == r < 0 \/ r > last
        IN  /\ Len(allRows) >= Len(rr)
            /\ \A j \in 1..Len(rr) :
                  LET reading == LastFileReadings[j]
                      i == rr[j]
                  IN  /\ reading.timestamp
                          = DateAt(file.jsonData, mapping, i, tz, now).t
                      /\ Outside(i + mapping.activeRow - mapping.dateRow)
                            => reading.activePower = 0
                      /\ Outside(i + mapping.inductiveRow - mapping.dateRow)
                            => reading.inductivePower = 0
                      /\ Outside(i + mapping.capacitiveRow - mapping.dateRow)
                            => reading.capacitivePower = 0

\* C7 witness: the last row of the first file resolves, its inductive and
\* capacitive values are mapped one row further down, and its reading holds
\* 0 for both beside its active value.
ReadingPastLastRow ==
    /\ parsePc = "loop"
    /\ fIndex = 1
    /\ mapping = MapOffsets
    /\ Len(files[1].jsonData) = 2
    /\ Len(allRows) = 2
    /\ allRows[2].inductivePower = 0
    /\ allRows[2].capacitivePower = 0
    /\ allRows[2].activePower = 112 * Scale

\* The identifier at the mapping's anchor of a file, null when the mapping
\* has no anchor or the cell is empty.
AnchorCpe(file, m) ==
    IF m.cpeRow = Undef \/ m.cpeCol = Undef THEN NoCpe
    ELSE IF ~HoldsCells(file, m.cpeRow) THEN NoCpe
    ELSE IF m.cpeCol + 1 > Len(file.jsonData[m.cpeRow + 1]) THEN NoCpe
    ELSE Cpe(<<"P", "T", Digits[file.id + 1]>>)

\* C8: the identifier is null until the first file is read and from then on
\* the trimmed text of the cell at (cpeRow, cpeCol) of the first file,
\* whatever the later files hold.
CpeFromFirstFileAnchor ==
    /\ (parsePc = "loop" /\ fIndex = 0) => detectedCpe = NoCpe
    /\ (parsePc \in {"loop", "done"} /\ fIndex >= 1)
         => detectedCpe = AnchorCpe(files[1], mapping)

\* C8 witness: the second file holds an identifier of its own at the anchor
\* and the returned identifier is the first file's.
CpeKeptOverSecondFile ==
    /\ parsePc = "done"
    /\ Len(files) = 2
    /\ AnchorCpe(files[2], mapping) = Cpe(<<"P", "T", "2">>)
    /\ detectedCpe = Cpe(<<"P", "T", "1">>)

\* ------------------------------------------------------- aggregateToHourly

\* rows.forEach(...): grouped, as the list of its [key, rows] entries in
\* insertion order (the order Object.keys gives for keys that are ISO
\* strings).
RECURSIVE GroupByHour(_, _, _)
GroupByHour(rows, off, grouped) ==
    IF rows = <<>> THEN grouped
    ELSE LET row == Head(rows)
             key == ToISOString(SetMinutesZero(row.timestamp, off))
             at == {i \in 1..Len(grouped) : grouped[i].key = key}
         IN  GroupByHour(Tail(rows), off,
                 IF at = {}
                 THEN Append(grouped, [key |-> key, rows |-> <<row>>])
                 ELSE [grouped EXCEPT ![CHOOSE i \in at : TRUE].rows = Append(@, row)])

\* values.reduce((a, b) => a + b, 0)
RECURSIVE SumOf(_)
SumOf(values) ==
    IF values = <<>> THEN 0
    ELSE FAdd(SumOf(SubSeq(values, 1, Len(values) - 1)), values[Len(values)])

\* Math.max(...values), Math.min(...values) of a non-empty list.
MaxOf(values) ==
    CHOOSE v \in {values[i] : i \in 1..Len(values)} :
        \A i \in 1..Len(values) : values[i] <= v

MinOf(values) ==
    CHOOSE v \in {values[i] : i \in 1..Len(values)} :
        \A i \in 1..Len(values) : v <= values[i]

\* date.toLocaleString('pt-PT', {month, day, hour, minute}): the local
\* <<month, day, hour, minute>>.
HourLabel(t, off) ==
    LET f == Fields(t, off) IN <<f[2], f[3], f[4], f[5]>>

\* The record of one group.
HourRecord(g, off) ==
    LET group == g.rows
        date == DateFromISO(g.key)
        actives == [i \in 1..Len(group) |-> group[i].activePower]
        inductives == [i \in 1..Len(group) |-> group[i].inductivePower]
        capacitives == [i \in 1..Len(group) |-> group[i].capacitivePower]
    IN  [timestamp |-> date,
         hourLabel |-> HourLabel(date, off),
         activeAvg |-> FDiv(SumOf(actives), Len(group)),
         activeMax |-> MaxOf(actives),
         activeMin |-> MinOf(actives),
         inductiveAvg |-> FDiv(SumOf(inductives), Len(group)),
         inductiveMax |-> MaxOf(inductives),
         inductiveMin |-> MinOf(inductives),
         capacitiveAvg |-> FDiv(SumOf(capacitives), Len(group)),
         capacitiveMax |-> MaxOf(capacitives),
         capacitiveMin |-> MinOf(capacitives)]

aggregateToHourly(rows, off) ==
    LET grouped == GroupByHour(rows, off, <<>>)
    IN  SortByTimestamp([i \in 1..Len(grouped) |-> HourRecord(grouped[i], off)])

\* ------------------------------ aggregateToHourly on one list of readings

\* 2024-01-01T08:00:00Z
AggBase == DaysFromCivil(2024, 1, 1) * 1440 + 8 * 60

\* 07:00, 08:15, 08:45 and 09:00 of that day.
AggTimes == {AggBase - 60, AggBase + 15, AggBase + 45, AggBase + 60}

\* The largest even number of Prec bits: three of them sum to a number that
\* has to be rounded.
PeakValue == 2 ^ Prec - 2

\* <<active, inductive, capacitive>> of a reading.
AggTriples == {<<10, 0, PeakValue>>, <<20, PeakValue, 1>>, <<PeakValue, 3, 0>>}

AggRows == {TelemetryRow(t, v[1], v[2], v[3]) : t \in AggTimes, v \in AggTriples}

InitAgg ==
    /\ tz \in TZOffsets
    /\ now = 0
    /\ ParseIdle
    /\ ValueIdle
    /\ DateIdle
    /\ CsvIdle
    /\ AppIdle
    /\ rawData \in UNION {[1..n -> AggRows] : n \in 0..MaxReadings}
    /\ hourlyData = <<>>
    /\ aggPc = "call"

CallAggregateToHourly ==
    /\ aggPc = "call"
    /\ hourlyData' = aggregateToHourly(rawData, tz)
    /\ aggPc' = "ret"
    /\ UNCHANGED <<tz, now, rawData, valueVars, parseVars, dateVars,
                   csvVars, appVars, fileVars, reportVars>>

NextAgg == CallAggregateToHourly

SpecAgg == InitAgg /\ [][NextAgg]_vars

\* C1: in every record returned by aggregateToHourly, min <= avg <= max for
\* each of the three quantities.
HourlyMinAvgMax ==
    aggPc = "ret" =>
        \A i \in 1..Len(hourlyData) :
            LET h == hourlyData[i]
            IN  /\ h.activeMin <= h.activeAvg /\ h.activeAvg <= h.activeMax
                /\ h.inductiveMin <= h.inductiveAvg /\ h.inductiveAvg <= h.inductiveMax
                /\ h.capacitiveMin <= h.capacitiveAvg /\ h.capacitiveAvg <= h.capacitiveMax

HourStarts == {SetMinutesZero(rawData[i].timestamp, tz) : i \in 1..Len(rawData)}

\* C2: the records are in strictly ascending order of hour start (so the
\* hour starts are pairwise distinct), one for each distinct hour-truncated
\* timestamp of the input, whatever the order of the input.
HourlyOnePerHourAscending ==
    aggPc = "ret" =>
        /\ \A i \in 1..(Len(hourlyData) - 1) :
               hourlyData[i].timestamp < hourlyData[i + 1].timestamp
        /\ {hourlyData[i].timestamp : i \in 1..Len(hourlyData)} = HourStarts
        /\ Len(hourlyData) = Cardinality(HourStarts)

\* C2 witness: a later hour came first in the input and one hour holds two
\* readings; the two records come out in ascending order.
HourlyFromUnsortedDuplicates ==
    /\ aggPc = "ret"
    /\ Len(rawData) = 3
    /\ rawData[1].timestamp > rawData[2].timestamp
    /\ rawData[3] = rawData[1]
    /\ Len(hourlyData) = 2

\* The start of the local hour of instant t.
HourOf(t, off) ==
    LET f == Fields(t, off) IN FromFields(<<f[1], f[2], f[3], f[4], 0>>, off)

\* The values of one quantity in the readings of rawData that fall in the
\* hour that starts at hour, in the order of rawData.
GroupValues(hour, Quantity(_)) ==
    LET group == SelectSeq(rawData, LAMBDA r : HourOf(r.timestamp, tz) = hour)
    IN  [i \in 1..Len(group) |-> Quantity(group[i])]

RECURSIVE ExactSum(_)
ExactSum(values) ==
    IF values = <<>> THEN 0 ELSE Head(values) + ExactSum(Tail(values))

\* n is a number of Prec bits.
Representable(n) == RoundToPrec(n, 1) = n

\* The sum of every prefix of values is a number, and so is the mean.
MeanIsExact(values) ==
    /\ \A k \in 1..Len(values) : Representable(ExactSum(SubSeq(values, 1, k)))
    /\ ExactSum(values) % Len(values) = 0
    /\ Representable(ExactSum(values) \div Len(values))

\* avg, max and min are the mean and the extrema of values; the mean up to
\* the rounding of the additions and of the division: a relative error of
\* 2^-Prec each, and half of the smallest spacing, 1, for the quotient.
MeanAndExtrema(values, avg, max, min) ==
    /\ values # <<>>
    /\ \E i \in 1..Len(values) : values[i] = max
    /\ \E i \in 1..Len(values) : values[i] = min
    /\ \A i \in 1..Len(values) : min <= values[i] /\ values[i] <= max
    /\ Abs(avg * Len(values) - ExactSum(values)) * (2 ^ Prec)
         <= 2 * Len(values) * ExactSum(values) + Len(values) * 2 ^ (Prec - 1)
    /\ MeanIsExact(values) => avg * Len(values) = ExactSum(values)

\* C15 as amended: there is one record for each local hour that holds a
\* reading; its maximum and minimum are the extrema of the hour's values and
\* its average is their mean as the arithmetic computes it, the mean itself
\* when the sums and the quotient need no rounding.
HourlyMeanUpToRounding ==
    aggPc = "ret" =>
        /\ \A i \in 1..Len(rawData) : \E j \in 1..Len(hourlyData) :
               hourlyData[j].timestamp = HourOf(rawData[i].timestamp, tz)
        /\ \A j \in 1..Len(hourlyData) :
               LET h == hourlyData[j]
               IN  /\ MeanAndExtrema(GroupValues(h.timestamp, LAMBDA r : r.activePower),
                                     h.activeAvg, h.activeMax, h.activeMin)
                   /\ MeanAndExtrema(GroupValues(h.timestamp, LAMBDA r : r.inductivePower),
                                     h.inductiveAvg, h.inductiveMax, h.inductiveMin)
                   /\ MeanAndExtrema(GroupValues(h.timestamp, LAMBDA r : r.capacitivePower),
                                     h.capacitiveAvg, h.capacitiveMax, h.capacitiveMin)

\* C15 witness: readings at 08:15 (active 10) and 08:45 (active 20) have
\* given one record at 08:00 with active average 15, maximum 20, minimum 10.
HourlyOfTwoReadings ==
    /\ aggPc = "ret"
    /\ tz = 0
    /\ Len(rawData) = 2
    /\ rawData[1].timestamp = AggBase + 15 /\ rawData[1].activePower = 10
    /\ rawData[2].timestamp = AggBase + 45 /\ rawData[2].activePower = 20
    /\ Len(hourlyData) = 1
    /\ hourlyData[1].timestamp = AggBase
    /\ hourlyData[1].activeAvg = 15
    /\ hourlyData[1].activeMax = 20
    /\ hourlyData[1].activeMin = 10

\* C15 as stated: the average of every record is the arithmetic mean of the
\* values of its hour.
HourlyIsExactMean ==
    aggPc = "ret" =>
        \A j \in 1..Len(hourlyData) :
            LET h == hourlyData[j]
                actives == GroupValues(h.timestamp, LAMBDA r : r.activePower)
                inductives == GroupValues(h.timestamp, LAMBDA r : r.inductivePower)
                capacitives == GroupValues(h.timestamp, LAMBDA r : r.capacitivePower)
            IN  /\ h.activeAvg * Len(actives) = ExactSum(actives)
                /\ h.inductiveAvg * Len(inductives) = ExactSum(inductives)
                /\ h.capacitiveAvg * Len(capacitives) = ExactSum(capacitives)

\* Every reading lies on a local hour boundary and no two share an hour.
HourAligned ==
    /\ \A i \in 1..Len(rawData) : HourOf(rawData[i].timestamp, tz) = rawData[i].timestamp
    /\ \A i \in 1..Len(rawData) : \A j \in 1..Len(rawData) :
          rawData[i].timestamp = rawData[j].timestamp => i = j

\* Each hourly record taken as a reading with its averages as values.
AsReadings(records) ==
    [i \in 1..Len(records) |->
        TelemetryRow(records[i].timestamp, records[i].activeAvg,
                     records[i].inductiveAvg, records[i].capacitiveAvg)]

\* C16: on hour-aligned input with one reading per hour there is one record
\* per reading, at the reading's timestamp, whose average, maximum and
\* minimum are the reading's value, and aggregating the records again gives
\* the same records.
HourlyIdempotentOnAligned ==
    (aggPc = "ret" /\ HourAligned) =>
        /\ Len(hourlyData) = Len(rawData)
        /\ \A i \in 1..Len(rawData) : \E j \in 1..Len(hourlyData) :
               LET r == rawData[i]
                   h == hourlyData[j]
               IN  /\ h.timestamp = r.timestamp
                   /\ h.activeAvg = r.activePower
                   /\ h.activeMax = r.activePower
                   /\ h.activeMin = r.activePower
                   /\ h.inductiveAvg = r.inductivePower
                   /\ h.inductiveMax = r.inductivePower
                   /\ h.inductiveMin = r.inductivePower
                   /\ h.capacitiveAvg = r.capacitivePower
                   /\ h.capacitiveMax = r.capacitivePower
                   /\ h.capacitiveMin = r.capacitivePower
        /\ aggregateToHourly(AsReadings(hourlyData), tz) = hourlyData

\* C16 witness: the readings of 09:00 and of 07:00, in that order, west of
\* UTC, have given two records that aggregate to themselves.
HourlyOfTwoAlignedReadings ==
    /\ aggPc = "ret"
    /\ tz = -300
    /\ Len(rawData) = 2
    /\ rawData[1].timestamp = AggBase + 60
    /\ rawData[2].timestamp = AggBase - 60
    /\ Len(hourlyData) = 2
    /\ hourlyData[1].timestamp = AggBase - 60
    /\ hourlyData[2].activeAvg = rawData[1].activePower
    /\ aggregateToHourly(AsReadings(hourlyData), tz) = hourlyData

\* ------------------------------------------------------------- generateCSV

\* A piece of text of a row, by what it says: kind "date" is dd/mm/yyyy as
\* <<d, m, y>>, "time" is HH:MM as <<h, mn>>, "dateTime" is
\* dd/mm/yyyy, HH:MM:00 as <<d, m, y, h, mn>>, "month" is the month name and
\* the year as <<m, y>>, "num" is a number with two decimals and a decimal
\* comma as its count of hundredths.
TextCell(kind, v) == [k |-> kind, v |-> v]

\* d.timestamp.toLocaleDateString('pt-PT')
LocaleDate(t, off) ==
    LET f == Fields(t, off) IN TextCell("date", <<f[3], f[2], f[1]>>)

\* d.timestamp.toLocaleTimeString('pt-PT', {hour: '2-digit', minute: '2-digit'})
LocaleTime(t, off) ==
    LET f == Fields(t, off) IN TextCell("time", <<f[4], f[5]>>)

\* d.timestamp.toLocaleString('pt-PT')
LocaleDateTime(t, off) ==
    LET f == Fields(t, off) IN TextCell("dateTime", <<f[3], f[2], f[1], f[4], f[5]>>)

\* d.timestamp.toLocaleString('pt-PT', {month: 'long', year: 'numeric'})
LocaleMonthYear(t, off) ==
    LET f == Fields(t, off) IN TextCell("month", <<f[2], f[1]>>)

\* ts.setHours(0, 0, 0, 0): the start of the local day.
StartOfDay(t, off) ==
    LET f == Fields(t, off) IN FromFields(<<f[1], f[2], f[3], 0, 0>>, off)

\* ts.setDate(1); ts.setHours(0, 0, 0, 0): the start of the local month.
StartOfMonth(t, off) ==
    LET f == Fields(t, off) IN FromFields(<<f[1], f[2], 1, 0, 0>>, off)

\* NaN, which is no number: below every number of the model.
NaN == 0 - 2 ^ 30

\* d[f] as a number: undefined, the value of a property d does not have,
\* is NaN in a sum.
NumberOf(d, f) == IF f \in DOMAIN d THEN d[f] ELSE NaN

\* sum += x
PlusEquals(sum, x) == IF sum = NaN \/ x = NaN THEN NaN ELSE FAdd(sum, x)

\* x.toFixed(2).replace('.', ','): the number of two decimals nearest to x,
\* the larger one of two nearest (x >= 0 is a count of 1/Scale); NaN is
\* written NaN.
ToFixed2(x) ==
    IF x = NaN THEN TextCell("NaN", 0)
    ELSE TextCell("num", (2 * x * 100 + Scale) \div (2 * Scale))

\* The entry of processedData of one record of the hourly branch.
HourlyEntry(d, off) ==
    [timestamp |-> d.timestamp,
     date |-> LocaleDate(d.timestamp, off),
     time |-> LocaleTime(d.timestamp, off),
     dateTime |-> LocaleDateTime(d.timestamp, off),
     active |-> d.activeAvg,
     inductive |-> d.inductiveAvg,
     capacitive |-> d.capacitiveAvg]

\* The hourly branch: one entry of processedData for each record.
RECURSIVE HourlyEntries(_, _)
HourlyEntries(recs, off) ==
    IF recs = <<>> THEN <<>>
    ELSE <<HourlyEntry(Head(recs), off)>> \o HourlyEntries(Tail(recs), off)

\* key and ts of a record: the text of its local day (month and year) and
\* the start of that day (month).
PeriodKey(d, resolution, off) ==
    IF resolution = "daily" THEN LocaleDate(d.timestamp, off)
    ELSE LocaleMonthYear(d.timestamp, off)

PeriodStart(d, resolution, off) ==
    IF resolution = "daily" THEN StartOfDay(d.timestamp, off)
    ELSE StartOfMonth(d.timestamp, off)

\* if (!grouped[key]) grouped[key] = {timestamp: ts, count: 0, ...}
OpenGroup(grouped, key, ts) ==
    IF \E i \in 1..Len(grouped) : grouped[i].key = key THEN grouped
    ELSE Append(grouped, [key |-> key, timestamp |-> ts, count |-> 0,
                          actSum |-> 0, indSum |-> 0, capSum |-> 0])

\* grouped[key].count++ and the three += of a record.
Accumulate(grouped, key, d) ==
    [grouped EXCEPT ![CHOOSE i \in 1..Len(grouped) : grouped[i].key = key] =
        [@ EXCEPT !.count = @ + 1,
                  !.actSum = PlusEquals(@, NumberOf(d, "activeAvg")),
                  !.indSum = PlusEquals(@, NumberOf(d, "inductiveAvg")),
                  !.capSum = PlusEquals(@, NumberOf(d, "capacitiveAvg"))]]

\* Mutation of GroupByPeriod: every record opens a group of its own.
RECURSIVE GroupByPeriodUnmerged(_, _, _, _)
GroupByPeriodUnmerged(recs, resolution, off, grouped) ==
    IF recs = <<>> THEN grouped
    ELSE GroupByPeriodUnmerged(Tail(recs), resolution, off,
             Append(grouped,
                    [key |-> PeriodKey(Head(recs), resolution, off),
                     timestamp |-> Head(recs).timestamp, count |-> 1,
                     actSum |-> Head(recs).activeAvg,
                     indSum |-> Head(recs).inductiveAvg,
                     capSum |-> Head(recs).capacitiveAvg]))

\* data.forEach(...) of the daily and monthly branch: grouped, as the list
\* of its entries in insertion order, each with its key.
RECURSIVE GroupByPeriod(_, _, _, _)
GroupByPeriod(recs, resolution, off, grouped) ==
    IF recs = <<>> THEN grouped
    ELSE GroupByPeriod(Tail(recs), resolution, off,
             Accumulate(OpenGroup(grouped, PeriodKey(Head(recs), resolution, off),
                                  PeriodStart(Head(recs), resolution, off)),
                        PeriodKey(Head(recs), resolution, off), Head(recs)))

\* The entry of processedData of one group.
PeriodEntry(g) ==
    [timestamp |-> g.timestamp,
     date |-> g.key,
     time |-> TextCell("empty", <<>>),
     dateTime |-> g.key,
     active |-> g.actSum,
     inductive |-> g.indSum,
     capacitive |-> g.capSum]

RECURSIVE MapPeriodEntry(_)
MapPeriodEntry(grouped) ==
    IF grouped = <<>> THEN <<>>
    ELSE <<PeriodEntry(Head(grouped))>> \o MapPeriodEntry(Tail(grouped))

\* Object.keys(grouped).map(...): one entry of processedData for each group.
PeriodEntries(recs, resolution, off) ==
    MapPeriodEntry(GroupByPeriod(recs, resolution, off, <<>>))

\* 2. Build Headers
CsvHeaders(config) ==
    LET hourly == config.resolution = "hourly"
    IN  (IF config.splitDateTime
         THEN <<"Data">> \o (IF hourly THEN <<"Hora">> ELSE <<>>)
         ELSE <<"Periodo">>)
        \o (IF config.columns.active
            THEN <<IF hourly THEN "Ativa (kW)" ELSE "Ativa (kWh)">> ELSE <<>>)
        \o (IF config.columns.inductive
            THEN <<IF hourly THEN "Indutiva (kVAr)" ELSE "Indutiva (kVArh)">> ELSE <<>>)
        \o (IF config.columns.capacitive
            THEN <<IF hourly THEN "Capacitiva (kVAr)" ELSE "Capacitiva (kVArh)">> ELSE <<>>)

\* Mutation of CsvRow: the capacitive cell is pushed before the inductive.
CsvRowCapacitiveFirst(d, config) ==
    (IF config.splitDateTime
     THEN <<d.date>> \o (IF config.resolution = "hourly" THEN <<d.time>> ELSE <<>>)
     ELSE <<d.dateTime>>)
    \o (IF config.columns.active THEN <<ToFixed2(d.active)>> ELSE <<>>)
    \o (IF config.columns.capacitive THEN <<ToFixed2(d.capacitive)>> ELSE <<>>)
    \o (IF config.columns.inductive THEN <<ToFixed2(d.inductive)>> ELSE <<>>)

\* 3. Build Rows: the row of one entry of processedData.
CsvRow(d, config) ==
    (IF config.splitDateTime
     THEN <<d.date>> \o (IF config.resolution = "hourly" THEN <<d.time>> ELSE <<>>)
     ELSE <<d.dateTime>>)
    \o (IF config.columns.active THEN <<ToFixed2(d.active)>> ELSE <<>>)
    \o (IF config.columns.inductive THEN <<ToFixed2(d.inductive)>> ELSE <<>>)
    \o (IF config.columns.capacitive THEN <<ToFixed2(d.capacitive)>> ELSE <<>>)

\* processedData.map(...)
RECURSIVE CsvRows(_, _)
CsvRows(processedData, config) ==
    IF processedData = <<>> THEN <<>>
    ELSE <<CsvRow(Head(processedData), config)>> \o CsvRows(Tail(processedData), config)

\* generateCSV(data, config): the header line and the rows of csvContent
\* and the name of the download.
generateCSV(recs, config, off) ==
    [headers |-> CsvHeaders(config),
     rows |-> CsvRows(IF config.resolution = "hourly" THEN HourlyEntries(recs, off)
                      ELSE PeriodEntries(recs, config.resolution, off), config),
     download |-> <<"k-dataelect_export_", config.resolution, ".csv">>]

\* ------------------------------------- generateCSV on one list of records

\* The number nearest to x thousandths of a unit.
NearThousandths(x) == RoundToPrec((x * Scale) \div 1000, 1)

\* <<activeAvg, inductiveAvg, capacitiveAvg>> of a record: 0.004, 0.008,
\* 0.01, 0.02, 1 and 1.5 units, or the numbers nearest to them.
CsvTriples ==
    {<<NearThousandths(4), NearThousandths(10), NearThousandths(1500)>>,
     <<NearThousandths(4), NearThousandths(20), NearThousandths(8)>>,
     <<NearThousandths(4), 0, NearThousandths(1000)>>}

\* The local hours 23:00 of 30 and 31 January 2024 and 00:00 of 31 January
\* and 1 February 2024.
CsvTimes(off) ==
    {FromFields(f, off) : f \in {<<2024, 1, 30, 23, 0>>, <<2024, 1, 31, 0, 0>>,
                                 <<2024, 1, 31, 23, 0>>, <<2024, 2, 1, 0, 0>>}}

\* An HourlyData whose maxima are twice its averages and whose minima are 0.
CsvRecord(t, v, off) ==
    [timestamp |-> t,
     hourLabel |-> HourLabel(t, off),
     activeAvg |-> v[1], activeMax |-> 2 * v[1], activeMin |-> 0,
     inductiveAvg |-> v[2], inductiveMax |-> 2 * v[2], inductiveMin |-> 0,
     capacitiveAvg |-> v[3], capacitiveMax |-> 2 * v[3], capacitiveMin |-> 0]

\* The records of the hours ts with the averages vs, in ascending order of
\* timestamp, as aggregateToHourly returns them.
RECURSIVE RecordsAt(_, _, _)
RecordsAt(ts, vs, off) ==
    IF ts = {} THEN <<>>
    ELSE LET last == CHOOSE x \in ts : \A y \in ts : y <= x
         IN  Append(RecordsAt(ts \ {last}, vs, off),
                    CsvRecord(last, vs[Cardinality(ts)], off))

\* The lists of at most MaxRecords records.
CsvLists(off) ==
    {RecordsAt(ts, vs, off) :
        ts \in {s \in SUBSET CsvTimes(off) : Cardinality(s) <= MaxRecords},
        vs \in [1..MaxRecords -> CsvTriples]}

CsvColumns ==
    {[active |-> TRUE, inductive |-> TRUE, capacitive |-> TRUE],
     [active |-> TRUE, inductive |-> FALSE, capacitive |-> TRUE],
     [active |-> FALSE, inductive |-> TRUE, capacitive |-> FALSE]}

CsvConfigs ==
    [resolution : {"hourly", "daily", "monthly"},
     splitDateTime : BOOLEAN,
     columns : CsvColumns]

InitCsv ==
    /\ tz \in TZOffsets
    /\ now = 0
    /\ ValueIdle
    /\ AggIdle
    /\ ParseIdle
    /\ DateIdle
    /\ AppIdle
    /\ csvData \in CsvLists(tz)
    /\ csvConfig \in CsvConfigs
    /\ csvOut = <<>>
    /\ csvPc = "call"
    /\ exportSel = <<>>

CallGenerateCSV ==
    /\ csvPc = "call"
    /\ csvOut' = generateCSV(csvData, csvConfig, tz)
    /\ csvPc' = "ret"
    /\ UNCHANGED <<tz, now, csvData, csvConfig, exportSel, valueVars, aggVars,
                   parseVars, dateVars, appVars, fileVars, reportVars>>

NextCsv == CallGenerateCSV

SpecCsv == InitCsv /\ [][NextCsv]_vars

\* The calendar day <<y, m, d>> (the calendar month <<y, m>>) of an instant.
PeriodOf(t, resolution) ==
    LET f == Fields(t, tz)
    IN  IF resolution = "daily" THEN <<f[1], f[2], f[3]>> ELSE <<f[1], f[2]>>

\* The period a row of a daily or monthly export names in its first cell.
RowPeriod(row) ==
    LET c == row[1]
    IN  IF c.k = "date" THEN <<c.v[3], c.v[2], c.v[1]>> ELSE <<c.v[2], c.v[1]>>

Quantities == {"active", "inductive", "capacitive"}

Enabled(q) == csvConfig.columns[q]

\* The place of the cell of quantity q in a row that starts with lead cells.
QuantityPlace(q, lead) ==
    lead + 1
    + (IF q # "active" /\ Enabled("active") THEN 1 ELSE 0)
    + (IF q = "capacitive" /\ Enabled("inductive") THEN 1 ELSE 0)

AvgOf(h, q) ==
    IF q = "active" THEN h.activeAvg
    ELSE IF q = "inductive" THEN h.inductiveAvg ELSE h.capacitiveAvg

\* The hourly averages of quantity q of the records of period p, in list
\* order.
AvgsOfPeriod(p, q, resolution) ==
    LET of == SelectSeq(csvData, LAMBDA h : PeriodOf(h.timestamp, resolution) = p)
    IN  [i \in 1..Len(of) |-> AvgOf(of[i], q)]

SumIsExact(values) ==
    \A k \in 1..Len(values) : Representable(ExactSum(SubSeq(values, 1, k)))

PeriodExport == csvPc = "ret" /\ csvConfig.resolution # "hourly"

OneRowPerPeriod ==
    /\ Len(csvOut.rows) =
           Cardinality({PeriodOf(csvData[i].timestamp, csvConfig.resolution) :
                           i \in 1..Len(csvData)})
    /\ \A i \in 1..Len(csvData) :
           Cardinality({j \in 1..Len(csvOut.rows) :
               RowPeriod(csvOut.rows[j]) =
                   PeriodOf(csvData[i].timestamp, csvConfig.resolution)}) = 1

\* C17: a daily (monthly) export has exactly one row for each distinct
\* calendar day (month of a year) of the records and every record belongs
\* to exactly one row; each quantity of a row is the number of two decimals
\* nearest to the sum of the hourly averages of the records of that day
\* (month) as the additions in list order give it, which is the sum itself
\* when no addition rounds.
PeriodRowsAreRoundedSums ==
    PeriodExport =>
        /\ OneRowPerPeriod
        /\ \A j \in 1..Len(csvOut.rows) : \A q \in Quantities :
               Enabled(q) =>
                   LET c == csvOut.rows[j][QuantityPlace(q, 1)]
                       values == AvgsOfPeriod(RowPeriod(csvOut.rows[j]), q,
                                              csvConfig.resolution)
                       sum == IF SumIsExact(values) THEN ExactSum(values)
                              ELSE SumOf(values)
                   IN  /\ c.k = "num"
                       /\ 2 * Abs(c.v * Scale - 100 * sum) <= Scale

\* A daily export of three records of two days, one of them of two records.
DailyRowsOfTwoDays ==
    /\ csvPc = "ret"
    /\ csvConfig.resolution = "daily"
    /\ Len(csvData) = 3
    /\ Len(csvOut.rows) = 2
    /\ Enabled("active")

\* C17 as stated: each quantity of a row is the sum of the hourly averages.
PeriodRowsAreSums ==
    PeriodExport =>
        /\ OneRowPerPeriod
        /\ \A j \in 1..Len(csvOut.rows) : \A q \in Quantities :
               Enabled(q) =>
                   csvOut.rows[j][QuantityPlace(q, 1)].v * Scale =
                       100 * ExactSum(AvgsOfPeriod(RowPeriod(csvOut.rows[j]), q,
                                                   csvConfig.resolution))

\* The rows of the export of csvData at hourly resolution, one cell for the
\* date in front.
HourlyExportRows ==
    generateCSV(csvData, [csvConfig EXCEPT !.resolution = "hourly",
                                           !.splitDateTime = TRUE], tz).rows

RECURSIVE SumOfCells(_, _)
SumOfCells(rows, place) ==
    IF rows = <<>> THEN 0 ELSE Head(rows)[place].v + SumOfCells(Tail(rows), place)

\* C18: for each day and each quantity, the values of the rows of the
\* hourly export of that day add up to the value of the row of that day of
\* the daily export.
HourlyRowsResumToDailyRow ==
    (csvPc = "ret" /\ csvConfig.resolution = "daily") =>
        \A j \in 1..Len(csvOut.rows) : \A q \in Quantities :
            Enabled(q) =>
                LET day == RowPeriod(csvOut.rows[j])
                    ofDay == SelectSeq(HourlyExportRows,
                                       LAMBDA r : RowPeriod(r) = day)
                IN  SumOfCells(ofDay, QuantityPlace(q, 2)) =
                        csvOut.rows[j][QuantityPlace(q, 1)].v

\* --------------------------------------------------------------------- App

\* Mutation of ReadFilesFrom: a file that cannot be read ends the loop, and
\* the readings of the files before it are returned.
RECURSIVE ReadFilesUpToFailure(_, _, _, _, _, _, _)
ReadFilesUpToFailure(fs, m, f, rows, cpe, off, wall) ==
    IF f = Len(fs) \/ ~fs[f + 1].ok
    THEN [ok |-> TRUE, data |-> SortByTimestamp(rows), cpe |-> cpe]
    ELSE ReadFilesUpToFailure(fs, m, f + 1,
                              ExtractRows(fs[f + 1].jsonData, m, m.dateRow, rows,
                                          off, wall),
                              ReadCpe(fs[f + 1].jsonData, m, f, cpe), off, wall)

\* parseExcelFiles(files, mapping) as one value: the loop over the files
\* from file f on, then the sort; ok is FALSE when the promise is rejected.
RECURSIVE ReadFilesFrom(_, _, _, _, _, _, _)
ReadFilesFrom(fs, m, f, rows, cpe, off, wall) ==
    IF f = Len(fs) THEN [ok |-> TRUE, data |-> SortByTimestamp(rows), cpe |-> cpe]
    ELSE IF ~fs[f + 1].ok THEN [ok |-> FALSE, data |-> <<>>, cpe |-> NoCpe]
    ELSE ReadFilesFrom(fs, m, f + 1,
                       ExtractRows(fs[f + 1].jsonData, m, m.dateRow, rows, off, wall),
                       ReadCpe(fs[f + 1].jsonData, m, f, cpe), off, wall)

parseExcelFiles(fs, m, off, wall) == ReadFilesFrom(fs, m, 0, <<>>, NoCpe, off, wall)

\* The metadata fields the import and the wizard write, and the name.
Metadata(name, cpe, filesCount, totalRecords) ==
    [name |-> name, cpe |-> cpe, filesCount |-> filesCount,
     totalRecords |-> totalRecords]

\* useState<ProjectState>({...}) and the project resetProject sets.
EmptyProject ==
    [metadata |-> Metadata(<<>>, <<>>, 0, 0),
     rawData |-> <<>>, hourlyData |-> <<>>, aiAnalysis |-> "null"]

\* useState<ColumnMapping>({...})
InitialMapping ==
    [dateCol |-> 0, dateRow |-> 1, timeCol |-> Undef, timeRow |-> Undef,
     activeCol |-> 1, activeRow |-> 1, inductiveCol |-> 2, inductiveRow |-> 1,
     capacitiveCol |-> 3, capacitiveRow |-> 1, cpeRow |-> Undef, cpeCol |-> Undef]

\* The mapping handleInitialFileSelect sets.
DefaultMapping ==
    [dateCol |-> 0, dateRow |-> 0, timeCol |-> Undef, timeRow |-> Undef,
     activeCol |-> 1, activeRow |-> 0, inductiveCol |-> 2, inductiveRow |-> 0,
     capacitiveCol |-> 3, capacitiveRow |-> 0, cpeRow |-> Undef, cpeCol |-> Undef]

\* Mutation of NoValidData: an empty series is taken for a series.
NoValidDataNever(rawData_) == FALSE

\* rawData.length === 0
NoValidData(rawData_) == Len(rawData_) = 0

\* Mutation of ImportedProject: the new readings are added to the old ones.
ImportedProjectAppended(prev, res, filesCount, off) ==
    [prev EXCEPT
        !.metadata = [@ EXCEPT !.filesCount = filesCount,
                               !.totalRecords = Len(res.data)],
        !.rawData = @ \o res.data,
        !.hourlyData = aggregateToHourly(prev.rawData \o res.data, off)]

\* setProject(prev => ({...prev, metadata: {...}, rawData, hourlyData}))
\* with hourlyData = aggregateToHourly(rawData).
ImportedProject(prev, res, filesCount, off) ==
    [prev EXCEPT
        !.metadata = [@ EXCEPT !.cpe = IF ~res.cpe.null /\ res.cpe.s # <<>>
                                       THEN res.cpe.s ELSE @,
                               !.filesCount = filesCount,
                               !.totalRecords = Len(res.data)],
        !.rawData = res.data,
        !.hourlyData = aggregateToHourly(res.data, off)]

\* --------------------------------------------------- App, from its mounting

\* The selections of the file input: one sheet of two rows with a date each,
\* one of two rows without a date, two sheets, a sheet and a file that
\* cannot be read, a file that cannot be read.
AppFileLists ==
    {<<Sheet(1, <<TRUE, TRUE>>)>>, <<Sheet(1, <<FALSE, FALSE>>)>>,
     <<Sheet(1, <<TRUE, TRUE>>), Sheet(2, <<TRUE>>)>>,
     <<Sheet(1, <<TRUE, TRUE>>), Unreadable>>, <<Unreadable>>}

\* The project of a project file: a series of one reading that no sheet
\* holds, and an analysis.
SavedProject ==
    LET series == <<TelemetryRow(AggBase + 15, 1, 2, 3)>>
    IN  [metadata |-> Metadata(<<"s", "a", "v", "e", "d">>, <<"P", "T", "9">>, 1, 1),
         rawData |-> series,
         hourlyData |-> aggregateToHourly(series, 0),
         aiAnalysis |-> "text"]

\* ------------------------------------------------------------ project files

\* The time value of an Invalid Date, which is no instant.
InvalidTime == -1

\* A project without the key metadata.
NoMetadata == [missing |-> TRUE]

\* A value of a project file as JSON.parse gives it: k is its kind ("absent"
\* for a key that is not there, "null", "string", "iso" for the string
\* toISOString writes, "list", "object"), s the text of a string, v the
\* fields of an ISO string, the elements of a list, the one object.
JAbsent == [k |-> "absent", v |-> <<>>, s |-> <<>>]

JNull == [k |-> "null", v |-> <<>>, s |-> <<>>]

JString(s) == [k |-> "string", v |-> <<>>, s |-> s]

JIso(f) == [k |-> "iso", v |-> f, s |-> <<>>]

JList(l) == [k |-> "list", v |-> l, s |-> <<>>]

JObject(o) == [k |-> "object", v |-> <<o>>, s |-> <<>>]

\* Date.prototype.toJSON: toISOString, null for an Invalid Date.
DateToJSON(t) ==
    IF t = InvalidTime THEN JNull ELSE JIso(ToISOString(t))

\* new Date(value) on the value of the key timestamp: null is the number 0,
\* undefined is NaN, a string is parsed.
ReviveDate(j, off) ==
    IF j.k = "iso" THEN DateFromISO(j.v)
    ELSE IF j.k = "null" THEN 0
    ELSE IF j.k = "string" /\ NativeDateParse(j.s, off).valid
    THEN NativeDateParse(j.s, off).t
    ELSE InvalidTime

DatesToJSON(records) ==
    [i \in 1..Len(records) |->
        [records[i] EXCEPT !.timestamp = DateToJSON(@)]]

\* records.forEach(r => r.timestamp = new Date(r.timestamp))
ReviveDates(records, off) ==
    [i \in 1..Len(records) |->
        [records[i] EXCEPT !.timestamp = ReviveDate(@, off)]]

\* A file whose text JSON.parse refuses.
NotJson ==
    [json |-> FALSE, metadata |-> JAbsent, rawData |-> JAbsent,
     hourlyData |-> JAbsent, aiAnalysis |-> "undefined"]

\* JSON.stringify(project): a key whose value is undefined is left out, a
\* Date becomes what toJSON gives, a finite number and a string are read
\* back as they were written.
StringifyProject(p) ==
    [json |-> TRUE,
     metadata |-> IF p.metadata = NoMetadata THEN JAbsent ELSE JObject(p.metadata),
     rawData |-> JList(DatesToJSON(p.rawData)),
     hourlyData |-> JList(DatesToJSON(p.hourlyData)),
     aiAnalysis |-> p.aiAnalysis]

\* The try block of reader.onload in loadProject: JSON.parse throws on a
\* text that is not JSON, obj.rawData.forEach and obj.hourlyData.forEach
\* throw on a value that is no list; ok is FALSE when the catch is entered,
\* and project is the obj given to setProject otherwise.
LoadedProject(file, off) ==
    IF ~file.json \/ file.rawData.k # "list" \/ file.hourlyData.k # "list"
    THEN [ok |-> FALSE, project |-> <<>>]
    ELSE [ok |-> TRUE,
          project |-> [metadata |-> IF file.metadata.k = "object"
                                    THEN file.metadata.v[1] ELSE NoMetadata,
                       rawData |-> ReviveDates(file.rawData.v, off),
                       hourlyData |-> ReviveDates(file.hourlyData.v, off),
                       aiAnalysis |-> file.aiAnalysis]]

\* The file saveProject writes for SavedProject.
GoodFile == StringifyProject(SavedProject)

\* The reading of GoodFile with a timestamp that is no date.
UndatedReading ==
    [GoodFile.rawData.v[1] EXCEPT !.timestamp = JString(<<"x">>)]

\* The files given to loadProject: a text that is not JSON, a saved project,
\* the same without rawData, with a rawData that is a string, without
\* hourlyData, without metadata, with a timestamp that is no date, and the
\* file of the empty project.
ProjectFiles ==
    {NotJson, GoodFile,
     [GoodFile EXCEPT !.rawData = JAbsent],
     [GoodFile EXCEPT !.rawData = JString(<<"x">>)],
     [GoodFile EXCEPT !.hourlyData = JAbsent],
     [GoodFile EXCEPT !.metadata = JAbsent],
     [GoodFile EXCEPT !.rawData = JList(<<UndatedReading>>)],
     StringifyProject(EmptyProject)}

\* The App renders project.metadata.cpe: without metadata the render throws
\* and React unmounts the App.
Mounted == project.metadata # NoMetadata

\* The cells of the preview grid the model clicks, as <<selectionMode,
\* rowIndex, colIndex>>.
ClickTargets == {<<"date", 1, 0>>, <<"cpe", 0, 5>>}

RemoveAt(s, k) == SubSeq(s, 1, k - 1) \o SubSeq(s, k + 1, Len(s))

\* The zone of the browser the App runs in: India.
AppZone == 330

InitApp ==
    /\ tz = AppZone
    /\ now = WallStart
    /\ ValueIdle
    /\ AggIdle
    /\ DateIdle
    /\ CsvIdle
    /\ files = <<>>
    /\ fIndex = 0
    /\ allRows = <<>>
    /\ detectedCpe = NoCpe
    /\ parsePc = "idle"
    /\ data = <<>>
    /\ mapping = InitialMapping
    /\ project = EmptyProject
    /\ viewMode = "UPLOAD"
    /\ loading = FALSE
    /\ selectedFiles = <<>>
    /\ alertMsg = "none"
    /\ pending = <<>>
    /\ savedFile = <<>>
    /\ loadLog = <<>>
    /\ ReportIdle

AppFrame ==
    UNCHANGED <<tz, now, valueVars, aggVars, dateVars, csvVars,
                files, fIndex, allRows, detectedCpe, parsePc, data, fileVars,
                reportVars>>

\* resetProject, confirmed.
ResetProject ==
    /\ viewMode # "REPORT"
    /\ project' = EmptyProject
    /\ selectedFiles' = <<>>
    /\ viewMode' = "UPLOAD"
    /\ alertMsg' = "resetConfirmed"
    /\ UNCHANGED <<mapping, loading, pending>>
    /\ AppFrame

\* handleInitialFileSelect, to its end: the preview of the first file is
\* read or the reading fails.
HandleInitialFileSelect ==
    /\ viewMode = "UPLOAD"
    /\ \E fs \in AppFileLists :
           /\ selectedFiles' = fs
           /\ IF fs[1].ok
              THEN /\ mapping' = DefaultMapping
                   /\ viewMode' = "CONFIG_IMPORT"
                   /\ alertMsg' = "none"
              ELSE /\ alertMsg' = "previewError"
                   /\ UNCHANGED <<mapping, viewMode>>
    /\ loading' = FALSE
    /\ UNCHANGED <<project, pending>>
    /\ AppFrame

\* handleCellClick on a cell of the preview grid.
HandleCellClick ==
    /\ viewMode = "CONFIG_IMPORT"
    /\ selectedFiles # <<>>
    /\ \E c \in ClickTargets :
           LET previewData == selectedFiles[1].jsonData
               rowIndex == c[2]
               colIndex == c[3]
           IN  /\ HasRow(previewData, rowIndex)
               /\ colIndex < Len(RowAt(previewData, rowIndex))
               /\ IF c[1] = "cpe"
                  THEN /\ mapping' = [mapping EXCEPT !.cpeRow = rowIndex,
                                                     !.cpeCol = colIndex]
                       /\ project' =
                              [project EXCEPT !.metadata.cpe =
                                  ToText(CellAt(RowAt(previewData, rowIndex), colIndex))]
                  ELSE /\ mapping' = [mapping EXCEPT !.dateRow = rowIndex,
                                                     !.dateCol = colIndex]
                       /\ UNCHANGED project
    /\ alertMsg' = "none"
    /\ UNCHANGED <<viewMode, loading, selectedFiles, pending>>
    /\ AppFrame

\* The Cancelar button of the import wizard.
CancelImport ==
    /\ viewMode = "CONFIG_IMPORT"
    /\ viewMode' = "UPLOAD"
    /\ alertMsg' = "none"
    /\ UNCHANGED <<project, mapping, loading, selectedFiles, pending>>
    /\ AppFrame

\* handleProcessFiles up to its await: parseExcelFiles is called with the
\* files and the mapping of this render.
BeginProcessFiles ==
    /\ viewMode = "CONFIG_IMPORT"
    /\ ~loading
    /\ Len(pending) < MaxPending
    /\ loading' = TRUE
    /\ pending' = Append(pending,
                         [files |-> selectedFiles, mapping |-> mapping,
                          res |-> parseExcelFiles(selectedFiles, mapping, tz, now)])
    /\ alertMsg' = "none"
    /\ UNCHANGED <<project, mapping, viewMode, selectedFiles>>
    /\ AppFrame

\* Mutation of FinishProcessFiles: without the finally block, loading is
\* cleared by the return of an import without readings only.
FinishWithoutFinally ==
    /\ \E k \in 1..Len(pending) :
           LET call == pending[k]
           IN  /\ pending' = RemoveAt(pending, k)
               /\ IF ~call.res.ok
                  THEN /\ alertMsg' = "processError"
                       /\ UNCHANGED <<project, viewMode, loading>>
                  ELSE IF NoValidData(call.res.data)
                  THEN /\ alertMsg' = "noData"
                       /\ loading' = FALSE
                       /\ UNCHANGED <<project, viewMode>>
                  ELSE /\ project' = ImportedProject(project, call.res,
                                                     Len(call.files), tz)
                       /\ viewMode' = "DASHBOARD"
                       /\ alertMsg' = "none"
                       /\ UNCHANGED loading
    /\ UNCHANGED <<mapping, selectedFiles>>
    /\ AppFrame

\* handleProcessFiles from its await on, for one of the calls that wait.
FinishProcessFiles ==
    /\ \E k \in 1..Len(pending) :
           LET call == pending[k]
           IN  /\ pending' = RemoveAt(pending, k)
               /\ IF ~call.res.ok
                  THEN /\ alertMsg' = "processError"
                       /\ UNCHANGED <<project, viewMode>>
                  ELSE IF NoValidData(call.res.data)
                  THEN /\ alertMsg' = "noData"
                       /\ UNCHANGED <<project, viewMode>>
                  ELSE /\ project' = ImportedProject(project, call.res,
                                                     Len(call.files), tz)
                       /\ viewMode' = "DASHBOARD"
                       /\ alertMsg' = "none"
    /\ loading' = FALSE
    /\ UNCHANGED <<mapping, selectedFiles>>
    /\ AppFrame

\* reader.onload of loadProject on a file.
LoadFile(file) ==
    LET res == LoadedProject(file, tz)
    IN  IF res.ok
        THEN /\ project' = res.project
             /\ viewMode' = "DASHBOARD"
             /\ alertMsg' = "none"
        ELSE /\ alertMsg' = "invalidProject"
             /\ UNCHANGED <<project, viewMode>>

\* loadProject, to the end of reader.onload: the file holds a project or
\* cannot be parsed.
LoadProject ==
    /\ viewMode # "REPORT"
    /\ \E file \in {GoodFile, NotJson} : LoadFile(file)
    /\ UNCHANGED <<mapping, loading, selectedFiles, pending>>
    /\ AppFrame

NextApp ==
    \/ ResetProject
    \/ HandleInitialFileSelect
    \/ HandleCellClick
    \/ CancelImport
    \/ BeginProcessFiles
    \/ FinishProcessFiles
    \/ LoadProject

SpecApp == InitApp /\ [][NextApp]_vars

\* The step in which the k-th waiting call of handleProcessFiles finishes.
Finishes(k) == k \in 1..Len(pending) /\ pending' = RemoveAt(pending, k)

\* C19: when the parseExcelFiles of an import resolves with no reading, the
\* import ends with the alert of no valid data and leaves the project (its
\* rawData, hourlyData and metadata) and the view as they were.
EmptyImportLeavesProject ==
    [][\A k \in 1..Len(pending) :
          (Finishes(k) /\ pending[k].res.ok /\ pending[k].res.data = <<>>) =>
              /\ alertMsg' = "noData"
              /\ project' = project
              /\ viewMode' = viewMode]_vars

\* An import of a sheet without a date has just ended in the wizard.
EmptyImportReported ==
    /\ alertMsg = "noData"
    /\ viewMode = "CONFIG_IMPORT"
    /\ ~loading
    /\ pending = <<>>
    /\ project.rawData = <<>>

\* C20: when an import succeeds, the project's rawData is the series its
\* parseExcelFiles resolved with (the merge of the files of that import),
\* its hourlyData is aggregateToHourly of that rawData and its record count
\* is the length of that rawData, whatever series the project held.
ImportReplacesSeries ==
    [][\A k \in 1..Len(pending) :
          (Finishes(k) /\ pending[k].res.ok /\ pending[k].res.data # <<>>) =>
              /\ project'.rawData = pending[k].res.data
              /\ project'.hourlyData = aggregateToHourly(project'.rawData, tz)
              /\ project'.metadata.totalRecords = Len(pending[k].res.data)
              /\ viewMode' = "DASHBOARD"]_vars

\* An import has replaced the series of a project that was opened while the
\* import was waiting: the name and the analysis are those of the opened
\* project, the series is not.
ImportOverOpenedProject ==
    /\ project.metadata.name = SavedProject.metadata.name
    /\ project.aiAnalysis = SavedProject.aiAnalysis
    /\ project.rawData # <<>>
    /\ \A i \in 1..Len(project.rawData) :
           \A j \in 1..Len(SavedProject.rawData) :
               project.rawData[i] # SavedProject.rawData[j]
    /\ pending = <<>>

\* C23: when a file of an import cannot be read as a spreadsheet, the import
\* ends with the alert of a processing error and leaves the project and the
\* view as they were: no reading is committed, not even those of the files
\* read before the failing one.
UnreadableFileAbortsImport ==
    [][\A k \in 1..Len(pending) :
          (Finishes(k)
             /\ \E f \in 1..Len(pending[k].files) : ~pending[k].files[f].ok) =>
              /\ alertMsg' = "processError"
              /\ project' = project
              /\ viewMode' = viewMode]_vars

\* An import of a sheet with two dated rows followed by a file that cannot
\* be read has just ended, in the wizard, with the empty project.
SecondFileUnreadableReported ==
    /\ alertMsg = "processError"
    /\ Len(selectedFiles) = 2
    /\ selectedFiles[1].ok
    /\ ~selectedFiles[2].ok
    /\ viewMode = "CONFIG_IMPORT"
    /\ ~loading
    /\ pending = <<>>
    /\ project = EmptyProject

\* C28: when an import finishes after a resetProject that no other handler
\* followed, the project is still the empty project and the view is still
\* the upload view.
ResetOutlivesImport ==
    [][\A k \in 1..Len(pending) :
          (Finishes(k) /\ alertMsg = "resetConfirmed") =>
              /\ project' = EmptyProject
              /\ viewMode' = "UPLOAD"]_vars

\* A call that waits ends: FinishProcessFiles is the one action of the App
\* that shortens pending, so the steps of SpecApp that end a call are its
\* steps, and it is enabled exactly when a call waits.
EndsCall == \E k \in 1..Len(pending) : Finishes(k)

\* The App when every parseExcelFiles that was called returns: the promise
\* of a call that waits is settled at some time, and the rest of its
\* handleProcessFiles (FinishProcessFiles) runs then.
SpecAppFair == SpecApp /\ WF_pending(EndsCall)

\* C29: the step that ends an import, whether it succeeds, finds no reading
\* or fails, clears loading; and whenever an import waits for
\* parseExcelFiles, loading is FALSE at some later time.
ImportClearsLoading ==
    /\ [][\A k \in 1..Len(pending) : Finishes(k) => loading' = FALSE]_vars
    /\ (pending # <<>>) ~> (~loading)

\* An import of two sheets has ended: the project holds their readings and
\* loading is cleared.
TwoSheetImportEnded ==
    /\ viewMode = "DASHBOARD"
    /\ ~loading
    /\ pending = <<>>
    /\ project.rawData # <<>>
    /\ project.metadata.filesCount = 2

\* ------------------------------------------ saveProject and loadProject

LoadFrame ==
    UNCHANGED <<tz, now, valueVars, aggVars, dateVars, csvVars,
                files, fIndex, allRows, detectedCpe, parsePc, data,
                mapping, loading, selectedFiles, pending, reportVars>>

\* The files the file input of loadProject can be given: those of
\* ProjectFiles and the download of saveProject.
FilesOnDisk == ProjectFiles \cup {savedFile[i] : i \in 1..Len(savedFile)}

\* loadProject, to the end of reader.onload, on a file of the disk.
LoadProjectFile ==
    /\ Mounted
    /\ viewMode # "REPORT"
    /\ Len(loadLog) < MaxLoads
    /\ \E file \in FilesOnDisk :
           /\ LoadFile(file)
           /\ loadLog' = Append(loadLog, file)
    /\ UNCHANGED savedFile
    /\ LoadFrame

\* saveProject: the download replaces that of the save before.
SaveProject ==
    /\ Mounted
    /\ viewMode # "REPORT"
    /\ savedFile' = <<StringifyProject(project)>>
    /\ alertMsg' = "none"
    /\ UNCHANGED <<project, viewMode, loadLog>>
    /\ LoadFrame

NextLoad ==
    \/ LoadProjectFile
    \/ SaveProject

SpecLoad == InitApp /\ [][NextLoad]_vars

\* The step is a loadProject, of the file LoadedFile.
Loads == Len(loadLog') = Len(loadLog) + 1

LoadedFile == loadLog'[Len(loadLog')]

\* The file is one of those the load is to refuse: no JSON, no list of
\* readings or of hourly records, no metadata, or a timestamp that is no
\* ISO date.
Defective(file) ==
    \/ ~file.json
    \/ file.rawData.k # "list"
    \/ file.hourlyData.k # "list"
    \/ file.metadata.k # "object"
    \/ \E i \in 1..Len(file.rawData.v) : file.rawData.v[i].timestamp.k # "iso"
    \/ \E i \in 1..Len(file.hourlyData.v) : file.hourlyData.v[i].timestamp.k # "iso"

\* C21: a loadProject of a file that is no JSON, lacks a list rawData or
\* hourlyData, lacks metadata or holds a timestamp that does not parse
\* leaves the project and the view mode as they were.
DefectiveLoadRejected ==
    [][(Loads /\ Defective(LoadedFile)) =>
           (project' = project /\ viewMode' = viewMode)]_vars

\* C22: a loadProject of the file saveProject wrote for the project of the
\* App gives that project again: the same readings and hourly records, with
\* the same timestamps and values, in the same order.
SavedProjectRestored ==
    [][(Loads /\ savedFile # <<>> /\ LoadedFile = savedFile[1]
          /\ savedFile[1] = StringifyProject(project)) =>
           project' = project]_vars

\* ------------------------------------ parseDateTime: two cells with numbers

\* The number of whole days of a date cell plus what a time cell (not
\* negative) has below a whole day.
FloorPlusFraction(dateVal, timeVal) ==
    NumFine((dateVal.n - (dateVal.n % Scale)) + (timeVal.n % Scale), timeVal.u)

\* C25: when the date cell and the time cell are both numbers, every call
\* returns what parseDateTime returns for the one serial floor(date) +
\* fraction(time): the part of the date cell below a day and the whole days
\* of the time cell do not count.
NumericCellsSumParts ==
    \A i \in 1..Len(dateOut) :
        (dateIn.t = "num" /\ timeIn.t = "num") =>
            dateOut[i] = parseDateTime(FloorPlusFraction(dateIn, timeIn), Blank,
                                       tz, now)

\* The serial 45000.604 with the time 1.25 has given 2023-03-15 06:00 UTC,
\* the instant of the serial 45000.25.
SerialWithTimeOverOneDay ==
    /\ dateIn = Serial(45000, 604)
    /\ timeIn = Num(Scale + Scale \div 4)
    /\ Len(dateOut) >= 1
    /\ dateOut[1].valid
    /\ Fields(dateOut[1].t, 0) = <<2023, 3, 15, 6, 0>>

\* The day of the date cell does not depend on the time of the call.
HasFixedDay(dateVal) ==
    DatePart(dateVal, tz, WallStart) = DatePart(dateVal, tz, WallStart + DayMinutes)

\* <<year, month, day>> of an instant in the local zone.
LocalDate(t) == SubSeq(Fields(t, tz), 1, 3)

\* C26: when the time cell is a number f with 0 <= f < 1 and the date cell
\* is no number, the hour taken from f is in 0..23, the minute in 0..59, and
\* every instant returned is on the calendar day of the date cell.
FractionStaysInDay ==
    (timeIn.t = "num" /\ timeIn.n \in 0..(Scale - 1) /\ dateIn.t # "num"
       /\ HasFixedDay(dateIn)) =>
        \A i \in 1..Len(dateOut) :
            dateOut[i].valid =>
                /\ TimePart(timeIn)[1].v \in 0..23
                /\ TimePart(timeIn)[2].v \in 0..59
                /\ LocalDate(dateOut[i].t)
                       = LocalDate(DatePart(dateIn, tz, WallStart).t)

\* ------------------------------------------------- Dashboard, handleExport

\* The local day of an instant, counted from 1 January 1970, and getDay()
\* (0 is Sunday; 1 January 1970 was a Thursday).
LocalDay(t, off) == (t + off) \div 1440

GetDay(t, off) == (LocalDay(t, off) + 4) % 7

\* <<start, end>> of the current period around focusDate.  The ends of the
\* code are at second 59 of the last minute, and every timestamp is a whole
\* minute: the end is that last minute.
PeriodRange(focusDate, period, off) ==
    LET f == Fields(focusDate, off)
        monday == LocalDay(focusDate, off) - ((GetDay(focusDate, off) + 6) % 7)
    IN  IF period = "DAILY"
        THEN <<FromFields(<<f[1], f[2], f[3], 0, 0>>, off),
               FromFields(<<f[1], f[2], f[3], 23, 59>>, off)>>
        ELSE IF period = "WEEKLY"
        THEN <<monday * 1440 - off, (monday + 7) * 1440 - 1 - off>>
        ELSE IF period = "MONTHLY"
        THEN <<FromFields(<<f[1], f[2], 1, 0, 0>>, off),
               FromFields(<<(f[1] * 12 + f[2]) \div 12, ((f[1] * 12 + f[2]) % 12) + 1,
                            1, 0, 0>>, off) - 1>>
        ELSE <<FromFields(<<f[1], 1, 1, 0, 0>>, off),
               FromFields(<<f[1], 12, 31, 23, 59>>, off)>>

\* datasetToExport.filter(d => d.timestamp >= start && d.timestamp <= end)
InPeriod(dataset, range) ==
    SelectSeq(dataset, LAMBDA d : d.timestamp >= range[1] /\ d.timestamp <= range[2])

\* datasetToExport of handleExport: the hourly records, the readings for the
\* resolution 'raw', of the current period if exportRange is 'current'.
DatasetToExport(p, config, sel, focusDate, off) ==
    LET dataset == IF config.resolution = "raw" THEN p.rawData ELSE p.hourlyData
    IN  IF sel.exportRange = "current"
        THEN InPeriod(dataset, PeriodRange(focusDate, sel.period, off))
        ELSE dataset

\* focusDate: the timestamp of the first hourly record, the time of the
\* mounting for an empty project.
FocusDate ==
    IF project.hourlyData # <<>> THEN project.hourlyData[1].timestamp ELSE now

\* --------------------------------------------- handleExport on one project

\* The local times 08:00, 08:15 and 09:00 of Monday 29 January 2024 and
\* 08:00 of Thursday 1 February 2024.
ExportTimes(off) ==
    {FromFields(f, off) : f \in {<<2024, 1, 29, 8, 0>>, <<2024, 1, 29, 8, 15>>,
                                 <<2024, 1, 29, 9, 0>>, <<2024, 2, 1, 8, 0>>}}

\* The readings at the times ts, in ascending order: 1 kW, 0.25 kVAr and
\* 0.5 kVAr (or the numbers nearest to them) each.
RECURSIVE ReadingsAt(_)
ReadingsAt(ts) ==
    IF ts = {} THEN <<>>
    ELSE LET last == CHOOSE x \in ts : \A y \in ts : y <= x
         IN  Append(ReadingsAt(ts \ {last}),
                    TelemetryRow(last, NearThousandths(1000), NearThousandths(250),
                                 NearThousandths(500)))

\* The project of an import of the readings rows.
ProjectOf(rows, off) ==
    [metadata |-> Metadata(<<>>, <<>>, 1, Len(rows)),
     rawData |-> rows,
     hourlyData |-> aggregateToHourly(rows, off),
     aiAnalysis |-> "null"]

ExportProjects(off) ==
    {ProjectOf(ReadingsAt(ts), off) :
        ts \in {s \in SUBSET ExportTimes(off) : Cardinality(s) <= MaxReadings}}

\* The choices of the export modal; the resolution 'raw' is its option
\* Detalhado (Original).
ExportConfigs ==
    [resolution : {"raw", "hourly", "daily", "monthly"},
     splitDateTime : BOOLEAN,
     columns : [active : BOOLEAN, inductive : BOOLEAN, capacitive : BOOLEAN]]

ExportSelections ==
    [exportRange : {"current", "all"},
     period : {"DAILY", "WEEKLY", "MONTHLY", "YEARLY"}]

InitExport ==
    /\ tz \in TZOffsets
    /\ now = WallStart
    /\ ValueIdle
    /\ AggIdle
    /\ ParseIdle
    /\ DateIdle
    /\ project \in ExportProjects(tz)
    /\ viewMode = "DASHBOARD"
    /\ loading = FALSE
    /\ selectedFiles = <<>>
    /\ alertMsg = "none"
    /\ pending = <<>>
    /\ savedFile = <<>>
    /\ loadLog = <<>>
    /\ ReportIdle
    /\ csvData = <<>>
    /\ csvConfig \in ExportConfigs
    /\ csvOut = <<>>
    /\ csvPc = "call"
    /\ exportSel \in ExportSelections

\* handleExport: the dataset is chosen and filtered and generateCSV writes
\* it.
HandleExport ==
    /\ csvPc = "call"
    /\ csvData' = DatasetToExport(project, csvConfig, exportSel, FocusDate, tz)
    /\ csvOut' = generateCSV(csvData', csvConfig, tz)
    /\ csvPc' = "ret"
    /\ UNCHANGED <<tz, now, csvConfig, exportSel, valueVars, aggVars, parseVars,
                   dateVars, appVars, fileVars, reportVars>>

NextExport == HandleExport

SpecExport == InitExport /\ [][NextExport]_vars

\* The readings of the project in the range the export modal selects.
ReadingsInRange ==
    IF exportSel.exportRange = "current"
    THEN InPeriod(project.rawData, PeriodRange(FocusDate, exportSel.period, tz))
    ELSE project.rawData

PowerOf(r, q) ==
    IF q = "active" THEN r.activePower
    ELSE IF q = "inductive" THEN r.inductivePower
    ELSE r.capacitivePower

\* C24: an export with the resolution 'raw' has one row for each reading of
\* the project in the selected range, in their order, and the cell of every
\* enabled quantity of a row is that reading's own value.
RawExportRowsAreReadings ==
    (csvPc = "ret" /\ csvConfig.resolution = "raw") =>
        /\ Len(csvOut.rows) = Len(ReadingsInRange)
        /\ \A i \in 1..Len(ReadingsInRange) :
               \A q \in Quantities :
                   Enabled(q) =>
                       csvOut.rows[i][QuantityPlace(q, 1)]
                           = ToFixed2(PowerOf(ReadingsInRange[i], q))

\* The entries of processedData the rows were written from.
ProcessedData ==
    IF csvConfig.resolution = "hourly" THEN HourlyEntries(csvData, tz)
    ELSE PeriodEntries(csvData, csvConfig.resolution, tz)

HeadersOf(q) ==
    IF q = "active" THEN {"Ativa (kW)", "Ativa (kWh)"}
    ELSE IF q = "inductive" THEN {"Indutiva (kVAr)", "Indutiva (kVArh)"}
    ELSE {"Capacitiva (kVAr)", "Capacitiva (kVArh)"}

\* The cells of a row before those of the quantities.
LeadCells == Len(csvOut.headers) - Cardinality({q \in Quantities : Enabled(q)})

\* C27: whatever the resolution, splitDateTime and the enabled columns,
\* every row generateCSV writes has as many cells as the header line, and
\* after the cells of the date the header names the enabled quantities in
\* the order active, inductive, capacitive and every row holds their values
\* in that order.
RowsFollowHeader ==
    csvPc = "ret" =>
        /\ LeadCells \in 1..2
        /\ Len(csvOut.rows) = Len(ProcessedData)
        /\ \A i \in 1..Len(csvOut.rows) :
               /\ Len(csvOut.rows[i]) = Len(csvOut.headers)
               /\ \A q \in Quantities :
                      Enabled(q) =>
                          /\ csvOut.headers[QuantityPlace(q, LeadCells)] \in HeadersOf(q)
                          /\ csvOut.rows[i][QuantityPlace(q, LeadCells)]
                                 = ToFixed2(ProcessedData[i][q])

\* An hourly export with date and time apart and the columns inductive and
\* capacitive has written two rows.
SplitHourlyExportOfTwoColumns ==
    /\ csvPc = "ret"
    /\ csvConfig.resolution = "hourly"
    /\ csvConfig.splitDateTime
    /\ ~csvConfig.columns.active
    /\ csvConfig.columns.inductive
    /\ csvConfig.columns.capacitive
    /\ Len(csvOut.rows) = 2
    /\ Len(csvOut.headers) = 4

\* ------------------------------- ReportView, generateReportAnalysis

\* What ai.models.generateContent does: it resolves with a text, resolves
\* without a text, or is rejected.
ServiceOutcomes == {"text", "empty", "error"}

\* generateReportAnalysis(hourlyData, metadata), as what becomes of its
\* promise: without a key it resolves at once; metadata.name of line 28 and
\* the reduce of line 34, which has no initial value and throws on an empty
\* list, are outside the try block; what generateContent does is inside.
generateReportAnalysis(hourlyData_, metadata, key, service) ==
    IF ~key THEN [settled |-> "resolved", text |-> "noKey"]
    ELSE IF metadata = NoMetadata THEN [settled |-> "rejected", text |-> "none"]
    ELSE IF hourlyData_ = <<>> THEN [settled |-> "rejected", text |-> "none"]
    ELSE IF service = "text" THEN [settled |-> "resolved", text |-> "analysis"]
    ELSE IF service = "empty" THEN [settled |-> "resolved", text |-> "noAnalysis"]
    ELSE [settled |-> "resolved", text |-> "serviceError"]

InitReport ==
    /\ tz = AppZone
    /\ now = WallStart
    /\ ValueIdle
    /\ AggIdle
    /\ DateIdle
    /\ CsvIdle
    /\ files = <<>>
    /\ fIndex = 0
    /\ allRows = <<>>
    /\ detectedCpe = NoCpe
    /\ parsePc = "idle"
    /\ data = <<>>
    /\ mapping = InitialMapping
    /\ project = EmptyProject
    /\ viewMode = "UPLOAD"
    /\ loading = FALSE
    /\ selectedFiles = <<>>
    /\ alertMsg = "none"
    /\ pending = <<>>
    /\ savedFile = <<>>
    /\ loadLog = <<>>
    /\ isGenerating = FALSE
    /\ aiCalls = <<>>
    /\ apiKey \in BOOLEAN

ReportFrame ==
    UNCHANGED <<tz, now, valueVars, aggVars, dateVars, csvVars,
                files, fIndex, allRows, detectedCpe, parsePc, data,
                mapping, loading, selectedFiles, pending, fileVars, apiKey>>

\* The button Criar Relatorio of the dashboard: ReportView is mounted.
ShowReport ==
    /\ Mounted
    /\ viewMode = "DASHBOARD"
    /\ viewMode' = "REPORT"
    /\ isGenerating' = FALSE
    /\ alertMsg' = "none"
    /\ UNCHANGED <<project, aiCalls>>
    /\ ReportFrame

\* The button Voltar ao Dashboard, while no analysis is awaited.
BackToDashboard ==
    /\ viewMode = "REPORT"
    /\ aiCalls = <<>>
    /\ viewMode' = "DASHBOARD"
    /\ alertMsg' = "none"
    /\ UNCHANGED <<project, isGenerating, aiCalls>>
    /\ ReportFrame

\* handleGenerateAI up to its await.
BeginGenerateAI ==
    /\ viewMode = "REPORT"
    /\ ~isGenerating
    /\ isGenerating' = TRUE
    /\ \E service \in ServiceOutcomes :
           aiCalls' = Append(aiCalls,
                             generateReportAnalysis(project.hourlyData,
                                                    project.metadata, apiKey, service))
    /\ alertMsg' = "none"
    /\ UNCHANGED <<project, viewMode>>
    /\ ReportFrame

\* handleGenerateAI from its await on, for a call whose promise resolved:
\* updateAnalysis(text) and setIsGenerating(false).  After a rejection
\* nothing of handleGenerateAI runs.
FinishGenerateAI ==
    /\ \E k \in 1..Len(aiCalls) :
           /\ aiCalls[k].settled = "resolved"
           /\ project' = [project EXCEPT !.aiAnalysis = aiCalls[k].text]
           /\ aiCalls' = RemoveAt(aiCalls, k)
    /\ isGenerating' = FALSE
    /\ alertMsg' = "none"
    /\ UNCHANGED viewMode
    /\ ReportFrame

NextReport ==
    \/ LoadProjectFile
    \/ ShowReport
    \/ BackToDashboard
    \/ BeginGenerateAI
    \/ FinishGenerateAI

SpecReport == InitReport /\ [][NextReport]_vars

\* The report when every promise that resolved is followed by the rest of
\* its handleGenerateAI.
SpecReportFair == SpecReport /\ WF_vars(FinishGenerateAI)

\* C30: no call of generateReportAnalysis is rejected, and whenever an
\* analysis is being generated, isGenerating is FALSE at some later time.
AnalysisRequestEnds ==
    /\ [](\A k \in 1..Len(aiCalls) : aiCalls[k].settled = "resolved")
    /\ isGenerating ~> ~isGenerating

====
